---------------------------- MODULE Spec2Model ----------------------------
(***************************************************************************)
(* PatchItUp: the unified-diff engine of src/src/unifiedDiff.ts, the patch  *)
(* header parser parseGitPatchFileEdits and the strip-level selection of   *)
(* src/src/gitApply.ts.                                                    *)
(*                                                                         *)
(* A text is a sequence of characters (one-character strings); a line is   *)
(* a text without its terminator.  Positions are 0-based as in the source; *)
(* TLA+ sequences are 1-based, so src[pos] of the source is src[pos + 1].  *)
(***************************************************************************)
EXTENDS Integers, Sequences, FiniteSets, TLC

VARIABLES
    originalText,     \* argument originalText of applyUnifiedDiffToText
    patch,            \* argument patch.hunks, when the whole list is given
    hunk,             \* the loop variable: the element of patch.hunks at hand
    pc,               \* position in applyUnifiedDiffToText
    original,         \* const original = splitText(originalText)
    srcLines,         \* const srcLines
    hunkIndex,        \* number of hunks the for loop has taken
    srcPos,           \* let srcPos
    out,              \* const out: string[]
    appliedHunks,     \* let appliedHunks
    rejectedHunks,    \* let rejectedHunks
    resultText,       \* the returned text
    kept,             \* history: loop state over the applied hunks alone
    placed,           \* history: source range [from, to) of each applied hunk
    placedLines,      \* history: hunk.lines of each applied hunk
    target,           \* the text B a generated diff leads to
    find,             \* one call of findBestHunkPosition on its own
    patchContent,     \* argument patchContent of the two parsers
    patchLines,       \* const lines = patchContent.split(/\r?\n/)
    lineIx,           \* number of lines the parser's for loop has taken
    edits,            \* parseGitPatchFileEdits: const edits
    current,          \* parseGitPatchFileEdits: let current (<<>> is undefined)
    files,            \* parseUnifiedDiffFiles: const files
    curFile,          \* parseUnifiedDiffFiles: let current (<<>> is undefined)
    curHunk,          \* parseUnifiedDiffFiles: let currentHunk (<<>> is undefined)
    preferredStrip,   \* selectStripLevelForPatch: const preferredStrip
    stripCandidates,  \* selectStripLevelForPatch: const stripCandidates
    candIx,           \* number of candidates the for loop has taken
    check,            \* const check, the result of the --check run
    stat,             \* const stat, the result of the --stat run
    probed,           \* history: what runGit did for each candidate taken
    selectedStrip,    \* the returned selectedStrip
    gitCalls,         \* history: the params of every call of runGit, in order
    params,           \* withStepProgress: params (title, totalSteps)
    status,           \* the status bar item: its text and the calls made on it
    currentStep,      \* let currentStep
    progressSoFar,    \* let progressSoFar, in units of 1/totalSteps
    currentIntent,    \* let currentIntent
    reports,          \* the payloads given to progress.report, in order
    settled,          \* how the task has settled
    returned          \* how withStepProgress has settled

applyVars == <<originalText, patch, hunk, pc, original, srcLines, hunkIndex, srcPos, out,
               appliedHunks, rejectedHunks, resultText, kept, placed, placedLines,
               target, find>>

parserVars == <<patchContent, patchLines, lineIx, edits, current, files, curFile, curHunk>>

stripVars == <<preferredStrip, stripCandidates, candIx, check, stat, probed,
               selectedStrip, gitCalls>>

progressVars == <<params, status, currentStep, progressSoFar, currentIntent, reports,
                  settled, returned>>

vars == <<applyVars, parserVars, stripVars, progressVars>>

-----------------------------------------------------------------------------
(* Characters and small helpers *)

CR == "\r"
LF == "\n"
CRLF == <<CR, LF>>

Max(a, b) == IF a >= b THEN a ELSE b
Min(a, b) == IF a <= b THEN a ELSE b

SetMin(S) == CHOOSE x \in S : \A y \in S : x <= y

\* All sequences over S of length at most n.
SeqsUpTo(S, n) == UNION {[1..k -> S] : k \in 0..n}

\* String.prototype.includes for a "\r\n" needle.
IncludesCRLF(text) ==
    \E i \in 1..(Len(text) - 1) : text[i] = CR /\ text[i + 1] = LF

\* String.prototype.endsWith
EndsWith(text, suffix) ==
    /\ Len(suffix) <= Len(text)
    /\ SubSeq(text, Len(text) - Len(suffix) + 1, Len(text)) = suffix

\* String.prototype.split(/\r?\n/): the regex is tried at each position from the
\* left; "\r\n" is one separator, a "\r" not followed by "\n" is line content.
RECURSIVE SplitLines(_, _, _, _)
SplitLines(text, i, cur, acc) ==
    IF i > Len(text) THEN Append(acc, cur)
    ELSE IF text[i] = LF THEN SplitLines(text, i + 1, <<>>, Append(acc, cur))
    ELSE IF text[i] = CR /\ i < Len(text) /\ text[i + 1] = LF
         THEN SplitLines(text, i + 2, <<>>, Append(acc, cur))
    ELSE SplitLines(text, i + 1, Append(cur, text[i]), acc)

\* Array.prototype.join(eol)
RECURSIVE JoinLines(_, _)
JoinLines(lines, eol) ==
    IF Len(lines) = 0 THEN <<>>
    ELSE IF Len(lines) = 1 THEN lines[1]
    ELSE lines[1] \o eol \o JoinLines(Tail(lines), eol)

\* Array.prototype.slice(from, to) for from, to >= 0 (0-based, to exclusive,
\* both clamped to the length).
Slice(arr, from, to) == SubSeq(arr, from + 1, Min(to, Len(arr)))

\* Array.prototype.splice(start, deleteCount), result array only.
Splice(arr, start, deleteCount) ==
    LET s == IF start < 0 THEN Max(Len(arr) + start, 0) ELSE Min(start, Len(arr))
        c == Min(Max(deleteCount, 0), Len(arr) - s)
    IN  SubSeq(arr, 1, s) \o SubSeq(arr, s + c + 1, Len(arr))

-----------------------------------------------------------------------------
(* splitText / joinText *)

splitText(text) ==
    [ lines |-> IF Len(text) # 0 THEN SplitLines(text, 1, <<>>, <<>>) ELSE << <<>> >>,
      eol |-> IF IncludesCRLF(text) THEN CRLF ELSE <<LF>>,
      endsWithNewline |-> EndsWith(text, <<LF>>) ]

\* joinText without the trim of a trailing terminator.
joinTextNoTrim(st) == JoinLines(st.lines, st.eol)

joinText(st) ==
    LET joined == JoinLines(st.lines, st.eol)
    IN  IF ~st.endsWithNewline /\ EndsWith(joined, st.eol)
        THEN SubSeq(joined, 1, Len(joined) - Len(st.eol))
        ELSE joined

-----------------------------------------------------------------------------
(* Hunk matching *)

window == 200

\* findBestHunkPosition returns undefined when nothing matches; every position
\* it returns is >= 0.
undefined == -1

RECURSIVE buildExpectedSourceLines(_)
buildExpectedSourceLines(lines) ==
    IF lines = <<>> THEN <<>>
    ELSE IF lines[1].kind # "add"
         THEN <<lines[1].text>> \o buildExpectedSourceLines(Tail(lines))
         ELSE buildExpectedSourceLines(Tail(lines))

\* matchesAt comparing the first expected line only.
matchesAtFirstLine(src, pos, expected) ==
    IF pos < 0 \/ pos + Len(expected) > Len(src) THEN FALSE
    ELSE \A i \in 0..(Min(Len(expected), 1) - 1) : src[pos + i + 1] = expected[i + 1]

matchesAt(src, pos, expected) ==
    IF pos < 0 \/ pos + Len(expected) > Len(src) THEN FALSE
    ELSE \A i \in 0..(Len(expected) - 1) : src[pos + i + 1] = expected[i + 1]

\* findBestHunkPosition without the fallback scan.
findBestWindowOnly(src, expected, preferredPos, lowerBoundPos) ==
    LET lowerBound == Max(0, lowerBoundPos)
        start == Max(lowerBound, preferredPos - window)
        end == Min(Len(src) - Len(expected), preferredPos + window)
        inWindow == {pos \in start..end : matchesAt(src, pos, expected)}
    IN  IF Len(expected) = 0 THEN Max(lowerBound, preferredPos)
        ELSE IF inWindow # {} THEN SetMin(inWindow)
        ELSE undefined

\* findBestHunkPosition with a window that begins at the preferred position.
findBestFromPreferred(src, expected, preferredPos, lowerBoundPos) ==
    LET lowerBound == Max(0, lowerBoundPos)
        start == Max(lowerBound, preferredPos)
        end == Min(Len(src) - Len(expected), preferredPos + window)
        inWindow == {pos \in start..end : matchesAt(src, pos, expected)}
        inScan == {pos \in lowerBound..(Len(src) - Len(expected)) :
                      matchesAt(src, pos, expected)}
    IN  IF Len(expected) = 0 THEN Max(lowerBound, preferredPos)
        ELSE IF inWindow # {} THEN SetMin(inWindow)
        ELSE IF inScan # {} THEN SetMin(inScan)
        ELSE undefined

\* findBestHunkPosition searching from the top of the source, not from the
\* lower bound.
findBestFromTop(src, expected, preferredPos, lowerBoundPos) ==
    LET start == Max(0, preferredPos - window)
        end == Min(Len(src) - Len(expected), preferredPos + window)
        inWindow == {pos \in start..end : matchesAt(src, pos, expected)}
        inScan == {pos \in 0..(Len(src) - Len(expected)) :
                      matchesAt(src, pos, expected)}
    IN  IF Len(expected) = 0 THEN Max(Max(0, lowerBoundPos), preferredPos)
        ELSE IF inWindow # {} THEN SetMin(inWindow)
        ELSE IF inScan # {} THEN SetMin(inScan)
        ELSE undefined

\* findBestHunkPosition placing a pure insertion at the preferred position even
\* when that lies before the lower bound.
findBestInsertAtPreferred(src, expected, preferredPos, lowerBoundPos) ==
    LET lowerBound == Max(0, lowerBoundPos)
        start == Max(lowerBound, preferredPos - window)
        end == Min(Len(src) - Len(expected), preferredPos + window)
        inWindow == {pos \in start..end : matchesAt(src, pos, expected)}
        inScan == {pos \in lowerBound..(Len(src) - Len(expected)) :
                      matchesAt(src, pos, expected)}
    IN  IF Len(expected) = 0 THEN preferredPos
        ELSE IF inWindow # {} THEN SetMin(inWindow)
        ELSE IF inScan # {} THEN SetMin(inScan)
        ELSE undefined

\* findBestHunkPosition trying the preferred position before the window.
findBestDeclaredFirst(src, expected, preferredPos, lowerBoundPos) ==
    LET lowerBound == Max(0, lowerBoundPos)
        start == Max(lowerBound, preferredPos - window)
        end == Min(Len(src) - Len(expected), preferredPos + window)
        inWindow == {pos \in start..end : matchesAt(src, pos, expected)}
        inScan == {pos \in lowerBound..(Len(src) - Len(expected)) :
                      matchesAt(src, pos, expected)}
    IN  IF Len(expected) = 0 THEN Max(lowerBound, preferredPos)
        ELSE IF preferredPos >= lowerBound /\ matchesAt(src, preferredPos, expected)
             THEN preferredPos
        ELSE IF inWindow # {} THEN SetMin(inWindow)
        ELSE IF inScan # {} THEN SetMin(inScan)
        ELSE undefined

findBestHunkPosition(src, expected, preferredPos, lowerBoundPos) ==
    LET lowerBound == Max(0, lowerBoundPos)
        start == Max(lowerBound, preferredPos - window)
        end == Min(Len(src) - Len(expected), preferredPos + window)
        inWindow == {pos \in start..end : matchesAt(src, pos, expected)}
        inScan == {pos \in lowerBound..(Len(src) - Len(expected)) :
                      matchesAt(src, pos, expected)}
    IN  IF Len(expected) = 0 THEN Max(lowerBound, preferredPos)
        ELSE IF inWindow # {} THEN SetMin(inWindow)
        ELSE IF inScan # {} THEN SetMin(inScan)
        ELSE undefined

-----------------------------------------------------------------------------
(* applyUnifiedDiffToText: one iteration of the loop over patch.hunks *)

PreferredPos(h) ==
    Max(0, (IF h.oldStart = 0 THEN 1 ELSE h.oldStart) - 1)

\* The walk with the del lines kept in the output.
RECURSIVE WalkHunkKeepDel(_, _, _)
WalkHunkKeepDel(src, lines, w) ==
    IF lines = <<>> \/ ~w.ok THEN w
    ELSE LET line == lines[1]
             inSrc == w.tempSrcPos >= 0 /\ w.tempSrcPos < Len(src)
             same == inSrc /\ src[w.tempSrcPos + 1] = line.text
         IN  IF line.kind # "add" THEN
                 IF ~same THEN [w EXCEPT !.ok = FALSE]
                 ELSE WalkHunkKeepDel(src, Tail(lines),
                                      [w EXCEPT !.tempOut = Append(@, src[w.tempSrcPos + 1]),
                                                !.tempSrcPos = @ + 1])
             ELSE WalkHunkKeepDel(src, Tail(lines),
                                  [w EXCEPT !.tempOut = Append(@, line.text)])

\* The walk over hunk.lines (source lines 223-240): w = [ok, tempSrcPos, tempOut].
\* srcLines[tempSrcPos] past the end is undefined, which equals no text.
RECURSIVE WalkHunk(_, _, _)
WalkHunk(src, lines, w) ==
    IF lines = <<>> \/ ~w.ok THEN w
    ELSE LET line == lines[1]
             inSrc == w.tempSrcPos >= 0 /\ w.tempSrcPos < Len(src)
             same == inSrc /\ src[w.tempSrcPos + 1] = line.text
         IN  IF line.kind = "context" THEN
                 IF ~same THEN [w EXCEPT !.ok = FALSE]
                 ELSE WalkHunk(src, Tail(lines),
                               [w EXCEPT !.tempOut = Append(@, src[w.tempSrcPos + 1]),
                                         !.tempSrcPos = @ + 1])
             ELSE IF line.kind = "del" THEN
                 IF ~same THEN [w EXCEPT !.ok = FALSE]
                 ELSE WalkHunk(src, Tail(lines), [w EXCEPT !.tempSrcPos = @ + 1])
             ELSE WalkHunk(src, Tail(lines),
                           [w EXCEPT !.tempOut = Append(@, line.text)])

\* The hunk is passed over by the search with no count of it.
RejectAtSearchUncounted(st) ==
    [st EXCEPT !.foundPos = undefined, !.applied = FALSE]

\* The hunk is rejected by the search (source lines 210-213).
RejectAtSearch(st) ==
    [st EXCEPT !.rejectedHunks = @ + 1, !.foundPos = undefined, !.applied = FALSE]

\* The hunk is rejected in mid-walk (source lines 242-247); copied is out after
\* the pre-hunk copy.
Rollback(st, copied, found) ==
    [st EXCEPT !.out = Splice(copied, Len(copied) - (found - st.srcPos),
                              found - st.srcPos),
               !.rejectedHunks = @ + 1,
               !.foundPos = found,
               !.applied = FALSE]

\* Commit that leaves the cursor at the found position.
CommitNoAdvance(st, copied, found, w) ==
    [st EXCEPT !.out = copied \o w.tempOut,
               !.srcPos = found,
               !.appliedHunks = @ + 1,
               !.foundPos = found,
               !.applied = TRUE]

\* The hunk is committed (source lines 249-251).
Commit(st, copied, found, w) ==
    [st EXCEPT !.out = copied \o w.tempOut,
               !.srcPos = w.tempSrcPos,
               !.appliedHunks = @ + 1,
               !.foundPos = found,
               !.applied = TRUE]

\* ApplyHunk with the pre-hunk copy done before the search result is looked at:
\* slice(srcPos, undefined) copies the rest of the source.
ApplyHunkCopyFirst(src, st, h) ==
    LET expectedSrc == buildExpectedSourceLines(h.lines)
        preferredPos == PreferredPos(h)
        found == findBestHunkPosition(src, expectedSrc, preferredPos, st.srcPos)
        copied == st.out \o Slice(src, st.srcPos,
                                  IF found = undefined THEN Len(src) ELSE found)
        w == WalkHunk(src, h.lines,
                      [ok |-> TRUE, tempSrcPos |-> found, tempOut |-> <<>>])
    IN  IF found = undefined THEN [RejectAtSearch(st) EXCEPT !.out = copied]
        ELSE IF ~w.ok THEN Rollback(st, copied, found)
        ELSE Commit(st, copied, found, w)

\* A line without its trailing blanks.
RECURSIVE TrimEnd(_)
TrimEnd(line) ==
    IF Len(line) > 0 /\ line[Len(line)] = " " THEN TrimEnd(SubSeq(line, 1, Len(line) - 1))
    ELSE line

\* ApplyHunk comparing lines without their trailing blanks, in the search and in
\* the walk.
ApplyHunkLoose(src, st, h) ==
    LET loose == [i \in 1..Len(src) |-> TrimEnd(src[i])]
        lines == [i \in 1..Len(h.lines) |->
                     [kind |-> h.lines[i].kind, text |-> TrimEnd(h.lines[i].text)]]
        expectedSrc == buildExpectedSourceLines(lines)
        preferredPos == PreferredPos(h)
        found == findBestHunkPosition(loose, expectedSrc, preferredPos, st.srcPos)
        copied == st.out \o Slice(src, st.srcPos, found)
        w == WalkHunk(loose, lines,
                      [ok |-> TRUE, tempSrcPos |-> found, tempOut |-> <<>>])
    IN  IF found = undefined THEN RejectAtSearch(st)
        ELSE IF ~w.ok THEN Rollback(st, copied, found)
        ELSE Commit(st, copied, found, w)

\* ApplyHunk moving the cursor by the declared oldLines, not by the lines the
\* walk consumed.
ApplyHunkCounted(src, st, h) ==
    LET expectedSrc == buildExpectedSourceLines(h.lines)
        preferredPos == PreferredPos(h)
        found == findBestHunkPosition(src, expectedSrc, preferredPos, st.srcPos)
        copied == st.out \o Slice(src, st.srcPos, found)
        w == WalkHunk(src, h.lines,
                      [ok |-> TRUE, tempSrcPos |-> found, tempOut |-> <<>>])
    IN  IF found = undefined THEN RejectAtSearch(st)
        ELSE IF ~w.ok THEN Rollback(st, copied, found)
        ELSE Commit(st, copied, found, [w EXCEPT !.tempSrcPos = found + h.oldLines])

\* One iteration: st = [srcPos, out, appliedHunks, rejectedHunks] plus what the
\* iteration did (found, applied).
ApplyHunk(src, st, h) ==
    LET expectedSrc == buildExpectedSourceLines(h.lines)
        preferredPos == PreferredPos(h)
        found == findBestHunkPosition(src, expectedSrc, preferredPos, st.srcPos)
        copied == st.out \o Slice(src, st.srcPos, found)
        w == WalkHunk(src, h.lines,
                      [ok |-> TRUE, tempSrcPos |-> found, tempOut |-> <<>>])
    IN  IF found = undefined THEN RejectAtSearch(st)
        ELSE IF ~w.ok THEN Rollback(st, copied, found)
        ELSE Commit(st, copied, found, w)

LoopStart ==
    [srcPos |-> 0, out |-> <<>>, appliedHunks |-> 0, rejectedHunks |-> 0,
     foundPos |-> undefined, applied |-> FALSE]

RECURSIVE ApplyHunks(_, _, _)
ApplyHunks(src, st, hs) ==
    IF hs = <<>> THEN st ELSE ApplyHunks(src, ApplyHunk(src, st, hs[1]), Tail(hs))

SourceLines(text) == IF Len(text) = 0 THEN <<>> ELSE splitText(text).lines

\* The whole function, as a function of its arguments.
applyUnifiedDiffToText(text, hs) ==
    LET split == splitText(text)
        src == SourceLines(text)
        st == ApplyHunks(src, LoopStart, hs)
        all == st.out \o Slice(src, st.srcPos, Len(src))
    IN  [ text |-> joinText([lines |-> all, eol |-> split.eol,
                             endsWithNewline |-> split.endsWithNewline]),
          appliedHunks |-> st.appliedHunks,
          rejectedHunks |-> st.rejectedHunks ]

-----------------------------------------------------------------------------
(* Inputs *)

MaxTextLen == 3
MaxHunkLines == 2
MaxHunks == 2
MaxOldStart == 3
MaxContext == 1
MaxPart == 2
MaxWsTextLen == 4

\* Original texts with "\n" terminators only, and with "\r" as well.
TextChars == {"a", LF}
Texts == SeqsUpTo(TextChars, MaxTextLen)
EolChars == {"a", CR, LF}
EolTexts == SeqsUpTo(EolChars, MaxTextLen)

\* Texts of hunk lines: what parseUnifiedDiffFiles leaves of a patch line.
HunkTexts == {<<"a">>}
DiffLines == [kind : {"context", "add", "del"}, text : HunkTexts]

\* Declared old starts: the small ones, and one further than the window away.
OldStarts == (0..MaxOldStart) \cup {window + MaxOldStart}

Hunks ==
    [oldStart : OldStarts, oldLines : {1}, newStart : {1}, newLines : {1},
     lines : SeqsUpTo(DiffLines, MaxHunkLines)]

NoHunk ==
    [oldStart |-> 0, oldLines |-> 0, newStart |-> 0, newLines |-> 0, lines |-> <<>>]

\* Inputs of findBestHunkPosition: sources s1 \o filler \o s2 with no filler or a
\* window of it, preferred positions near the start and a window away, lower
\* bounds likewise.
FindLines == {<<"a">>, <<>>}
Filler(n) == [i \in 1..n |-> <<>>]
FindSources ==
    {s1 \o Filler(n) \o s2 : s1 \in SeqsUpTo(FindLines, MaxPart),
                             s2 \in SeqsUpTo(FindLines, MaxPart), n \in {0, window}}
FindExpected == SeqsUpTo(FindLines, MaxPart)
FindPreferred == (0..MaxPart) \cup {window + i : i \in 0..(MaxPart + 1)}
FindLowerBounds == {0, 1, window, window + 1}

\* No call of runGit made.
NoRun == [exitCode |-> undefined, output |-> "", threw |-> FALSE]

NoFind ==
    [src |-> <<>>, expected |-> <<>>, preferredPos |-> 0, lowerBoundPos |-> 0,
     result |-> undefined, done |-> FALSE]

-----------------------------------------------------------------------------
(* applyUnifiedDiffToText as a state machine *)

\* The parsers and the strip-level selection are not running.
ParserIdle ==
    /\ patchContent = ""
    /\ patchLines = <<>>
    /\ lineIx = 0
    /\ edits = <<>>
    /\ current = <<>>
    /\ files = <<>>
    /\ curFile = <<>>
    /\ curHunk = <<>>

StripIdle ==
    /\ preferredStrip = 0
    /\ stripCandidates = <<>>
    /\ candIx = 0
    /\ check = NoRun
    /\ stat = NoRun
    /\ probed = <<>>
    /\ selectedStrip = undefined
    /\ gitCalls = <<>>

\* No promise settled yet.
Pending == [kind |-> "pending", value |-> ""]

\* withStepProgress is not running.
ProgressIdle ==
    /\ params = [title |-> "", totalSteps |-> 1]
    /\ status = [text |-> "", events |-> <<>>]
    /\ currentStep = 0
    /\ progressSoFar = 0
    /\ currentIntent = ""
    /\ reports = <<>>
    /\ settled = Pending
    /\ returned = Pending

LoopState ==
    [srcPos |-> srcPos, out |-> out, appliedHunks |-> appliedHunks,
     rejectedHunks |-> rejectedHunks, foundPos |-> undefined, applied |-> FALSE]

Entry ==
    /\ hunk = NoHunk
    /\ pc = "split"
    /\ original = splitText(<<>>)
    /\ srcLines = <<>>
    /\ hunkIndex = 0
    /\ srcPos = 0
    /\ out = <<>>
    /\ appliedHunks = 0
    /\ rejectedHunks = 0
    /\ resultText = <<>>
    /\ kept = LoopStart
    /\ placed = <<>>
    /\ placedLines = <<>>
    /\ find = NoFind
    /\ ParserIdle
    /\ StripIdle
    /\ ProgressIdle

Init ==
    /\ originalText \in Texts
    /\ patch = <<>>
    /\ target = <<>>
    /\ Entry

\* Source lines 195-203.
Split ==
    /\ pc = "split"
    /\ original' = splitText(originalText)
    /\ srcLines' = SourceLines(originalText)
    /\ srcPos' = LoopStart.srcPos
    /\ out' = LoopStart.out
    /\ appliedHunks' = LoopStart.appliedHunks
    /\ rejectedHunks' = LoopStart.rejectedHunks
    /\ pc' = "loop"
    /\ UNCHANGED <<originalText, patch, hunk, hunkIndex, resultText, kept, placed, placedLines,
                   target, find,
                   parserVars, stripVars,
                   progressVars>>

\* Source line 205: the loop takes the next hunk h of patch.hunks.
Take(h) ==
    /\ pc = "loop"
    /\ hunk' = h
    /\ hunkIndex' = hunkIndex + 1
    /\ pc' = "hunk"
    /\ UNCHANGED <<originalText, patch, original, srcLines, srcPos, out, appliedHunks,
                   rejectedHunks, resultText, kept, placed, placedLines, target, find,
                   parserVars, stripVars,
                   progressVars>>

\* patch.hunks is any list of at most MaxHunks hunks.
NextHunk ==
    /\ hunkIndex < MaxHunks
    /\ \E h \in Hunks : Take(h)

\* Source lines 206-251: the loop body on the hunk at hand.
ApplyStep ==
    /\ pc = "hunk"
    /\ LET st == ApplyHunk(srcLines, LoopState, hunk)
       IN  /\ srcPos' = st.srcPos
           /\ out' = st.out
           /\ appliedHunks' = st.appliedHunks
           /\ rejectedHunks' = st.rejectedHunks
           /\ kept' = IF st.applied THEN ApplyHunk(srcLines, kept, hunk) ELSE kept
           /\ placed' = IF st.applied
                        THEN Append(placed, [from |-> st.foundPos, to |-> st.srcPos])
                        ELSE placed
           /\ placedLines' = IF st.applied THEN Append(placedLines, hunk.lines)
                             ELSE placedLines
    /\ hunk' = NoHunk
    /\ pc' = "loop"
    /\ UNCHANGED <<originalText, patch, original, srcLines, hunkIndex, resultText,
                   target, find,
                   parserVars, stripVars,
                   progressVars>>

\* Source lines 254-262.
Return ==
    /\ pc = "loop"
    /\ resultText' = joinText([lines |-> out \o Slice(srcLines, srcPos, Len(srcLines)),
                               eol |-> original.eol,
                               endsWithNewline |-> original.endsWithNewline])
    /\ pc' = "done"
    /\ UNCHANGED <<originalText, patch, hunk, original, srcLines, hunkIndex, srcPos,
                   out, appliedHunks, rejectedHunks, kept, placed, placedLines, target, find,
                   parserVars, stripVars,
                   progressVars>>

\* patch.hunks may end after any hunk.
Finish == Return

Next == Split \/ NextHunk \/ ApplyStep \/ Finish

Spec == Init /\ [][Next]_vars

\* The same with the loop going on: the for loop takes the next hunk or ends,
\* and the statements after it run.
MaxFairTextLen == 2

InitFair ==
    /\ originalText \in SeqsUpTo(TextChars, MaxFairTextLen)
    /\ patch = <<>>
    /\ target = <<>>
    /\ Entry

\* patch.hunks of the fair runs: at most MaxFairHunks hunks of at most
\* MaxFairHunkLines lines, declared at 0..MaxFairOldStart.
MaxFairHunks == 2
MaxFairHunkLines == 1
MaxFairOldStart == 1

FairHunks ==
    [oldStart : 0..MaxFairOldStart, oldLines : {1}, newStart : {1}, newLines : {1},
     lines : SeqsUpTo(DiffLines, MaxFairHunkLines)]

NextHunkFair ==
    /\ hunkIndex < MaxFairHunks
    /\ \E h \in FairHunks : Take(h)

NextFair == Split \/ NextHunkFair \/ ApplyStep \/ Finish

\* The for-of loop of lines 205-252 and the return of lines 254-262 always run on.
FairSpec == InitFair /\ [][NextFair]_vars /\ WF_vars(NextFair)

\* The same, on original texts that may hold "\r".
InitEol ==
    /\ originalText \in EolTexts
    /\ patch = <<>>
    /\ target = <<>>
    /\ Entry

SpecEol == InitEol /\ [][Next]_vars

-----------------------------------------------------------------------------
(* applyUnifiedDiffToText on a diff generated between two texts *)

\* The lines of a text as a diff tool sees them: each with its "\n", the last
\* one without when the text does not end with "\n".
RECURSIVE GitLines(_, _, _, _)
GitLines(text, i, cur, acc) ==
    IF i > Len(text) THEN (IF cur = <<>> THEN acc ELSE Append(acc, cur))
    ELSE IF text[i] = LF THEN GitLines(text, i + 1, <<>>, Append(acc, Append(cur, LF)))
    ELSE GitLines(text, i + 1, Append(cur, text[i]), acc)

\* What the patch carries of a line: its text without the "\n" (the
\* "\ No newline at end of file" marker is dropped by parseUnifiedDiffFiles).
PatchLine(kind, line) ==
    [kind |-> kind,
     text |-> IF EndsWith(line, <<LF>>) THEN SubSeq(line, 1, Len(line) - 1) ELSE line]

PatchLines(kind, lines, from, to) ==
    [i \in 1..(to - from + 1) |-> PatchLine(kind, lines[from + i - 1])]

\* The one-hunk unified diff from text A to text B with ctx lines of context:
\* the common prefix and suffix are cut off, ctx lines of each are kept as
\* context.  A hunk without old lines declares the line before it as oldStart.
GitDiff(A, B, ctx) ==
    LET a == GitLines(A, 1, <<>>, <<>>)
        b == GitLines(B, 1, <<>>, <<>>)
        m == Min(Len(a), Len(b))
        p == SetMin({n \in 0..m : n = m \/ a[n + 1] # b[n + 1]})
        s == SetMin({n \in 0..(m - p) :
                        n = m - p \/ a[Len(a) - n] # b[Len(b) - n]})
        cb == Min(ctx, p)
        ca == Min(ctx, s)
        body == PatchLines("context", a, p - cb + 1, p)
                \o PatchLines("del", a, p + 1, Len(a) - s)
                \o PatchLines("add", b, p + 1, Len(b) - s)
                \o PatchLines("context", a, Len(a) - s + 1, Len(a) - s + ca)
        olds == cb + (Len(a) - s - p) + ca
        news == cb + (Len(b) - s - p) + ca
    IN  IF a = b THEN <<>>
        ELSE << [oldStart |-> IF olds = 0 THEN p - cb ELSE p - cb + 1,
                 oldLines |-> olds,
                 newStart |-> IF news = 0 THEN p - cb ELSE p - cb + 1,
                 newLines |-> news,
                 lines |-> body] >>

InitPatch ==
    /\ originalText \in Texts
    /\ target \in Texts
    /\ \E ctx \in 0..MaxContext : patch = GitDiff(originalText, target, ctx)
    /\ Entry

NextPatchHunk ==
    /\ hunkIndex < Len(patch)
    /\ Take(patch[hunkIndex + 1])

FinishPatch ==
    /\ hunkIndex = Len(patch)
    /\ Return

NextPatch == Split \/ NextPatchHunk \/ ApplyStep \/ FinishPatch

SpecPatch == InitPatch /\ [][NextPatch]_vars

\* One hunk applied to an original text that may hold blanks.
WsChars == {"a", " ", LF}
WsTexts == SeqsUpTo(WsChars, MaxWsTextLen)

InitWs ==
    /\ originalText \in WsTexts
    /\ patch \in {<<h>> : h \in Hunks}
    /\ target = <<>>
    /\ Entry

SpecWs == InitWs /\ [][NextPatch]_vars

\* A hunk list applied to a baseline with lines put before it: d lines "z",
\* which no hunk line equals.
MaxDrift == 1

DriftLine == <<"z">>

\* The text of d drift lines followed by the lines of the text base.
Drifted(d, base) ==
    JoinLines([i \in 1..d |-> DriftLine] \o SourceLines(base), <<LF>>)

DriftHunks == {h \in Hunks : h.oldStart <= MaxOldStart}

InitDrift ==
    /\ \E d \in 0..MaxDrift, base \in Texts : originalText = Drifted(d, base)
    /\ patch \in SeqsUpTo(DriftHunks, MaxHunks)
    /\ target = <<>>
    /\ Entry

SpecDrift == InitDrift /\ [][NextPatch]_vars

-----------------------------------------------------------------------------
(* findBestHunkPosition on its own *)

InitFind ==
    /\ originalText = <<>>
    /\ patch = <<>>
    /\ target = <<>>
    /\ hunk = NoHunk
    /\ pc = "find"
    /\ original = splitText(<<>>)
    /\ srcLines = <<>>
    /\ hunkIndex = 0
    /\ srcPos = 0
    /\ out = <<>>
    /\ appliedHunks = 0
    /\ rejectedHunks = 0
    /\ resultText = <<>>
    /\ kept = LoopStart
    /\ placed = <<>>
    /\ placedLines = <<>>
    /\ find \in [src : FindSources, expected : FindExpected,
                  preferredPos : FindPreferred, lowerBoundPos : FindLowerBounds,
                  result : {undefined}, done : {FALSE}]
    /\ ParserIdle
    /\ StripIdle
    /\ ProgressIdle

FindCall ==
    /\ pc = "find"
    /\ ~find.done
    /\ find' = [find EXCEPT
                   !.result = findBestHunkPosition(find.src, find.expected,
                                                   find.preferredPos, find.lowerBoundPos),
                   !.done = TRUE]
    /\ UNCHANGED <<originalText, patch, hunk, pc, original, srcLines, hunkIndex, srcPos,
                   out, appliedHunks, rejectedHunks, resultText, kept, placed, placedLines, target,
                   parserVars, stripVars,
                   progressVars>>

NextFind == FindCall

SpecFind == InitFind /\ [][NextFind]_vars

-----------------------------------------------------------------------------
(* Strings of the patch parsers.  A patch and its lines are strings;        *)
(* positions in them are 1-based here.                                      *)

\* The character at position i, the empty string when there is none.
CharAt(s, i) == IF i >= 1 /\ i <= Len(s) THEN SubSeq(s, i, i) ELSE ""

\* String.prototype.startsWith
StartsWith(s, prefix) ==
    Len(s) >= Len(prefix) /\ SubSeq(s, 1, Len(prefix)) = prefix

\* String.prototype.substring(n)
Substring(s, n) == SubSeq(s, n + 1, Len(s))

\* The regular expression classes \s, \d, [0-9a-fA-F], and the characters that
\* . does not match.
Spaces == {" ", "\t", "\n", "\r"}
IsSpace(c) == c \in Spaces
Digits == <<"0", "1", "2", "3", "4", "5", "6", "7", "8", "9">>
DigitChars == {Digits[d] : d \in 1..10}
HexChars == DigitChars \cup {"a", "b", "c", "d", "e", "f", "A", "B", "C", "D", "E", "F"}
IsHex(c) == c \in HexChars
IsLineTerminator(c) == c \in {"\n", "\r"}

\* The end of the longest run of characters of a class that starts at i: the
\* first position from i on that is past the string or not in the class.
RunEnd(s, i, cls) ==
    IF i > Len(s) THEN i
    ELSE SetMin({j \in i..(Len(s) + 1) : j = Len(s) + 1 \/ CharAt(s, j) \notin cls})

\* String.prototype.trim
RECURSIVE Trim(_)
Trim(s) ==
    IF Len(s) > 0 /\ IsSpace(CharAt(s, 1)) THEN Trim(SubSeq(s, 2, Len(s)))
    ELSE IF Len(s) > 0 /\ IsSpace(CharAt(s, Len(s))) THEN Trim(SubSeq(s, 1, Len(s) - 1))
    ELSE s

\* Number(digits)
RECURSIVE Number(_)
Number(s) ==
    IF Len(s) = 0 THEN 0
    ELSE Number(SubSeq(s, 1, Len(s) - 1)) * 10
         + ((CHOOSE d \in 1..10 : Digits[d] = CharAt(s, Len(s))) - 1)

\* The positions of "\n" in a string.
LFs(text) == {i \in 1..Len(text) : CharAt(text, i) = LF}

\* patchContent.split(/\n/): "\r" stays in the lines.
RECURSIVE SplitPatchLF(_)
SplitPatchLF(text) ==
    IF LFs(text) = {} THEN <<text>>
    ELSE LET i == SetMin(LFs(text))
         IN  <<SubSeq(text, 1, i - 1)>> \o SplitPatchLF(SubSeq(text, i + 1, Len(text)))

\* patchContent.split(/\r?\n/): a separator is a "\n" together with the "\r"
\* right before it, when there is one.
RECURSIVE SplitPatch(_)
SplitPatch(text) ==
    IF LFs(text) = {} THEN <<text>>
    ELSE LET i == SetMin(LFs(text))
             end == IF i > 1 /\ CharAt(text, i - 1) = CR THEN i - 2 ELSE i - 1
         IN  <<SubSeq(text, 1, end)>> \o SplitPatch(SubSeq(text, i + 1, Len(text)))

\* RegExp.exec found no match.
NoMatch == [ok |-> FALSE]

\* /^diff --git a\/(.+?) b\/(.+)$/: the first group is the shortest that lets the
\* rest match; . matches no line terminator and $ the end of the line only.
HeaderMatch(line) ==
    LET pre == "diff --git a/"
        from == Len(pre) + 1
        ks == {k \in 1..(Len(line) - Len(pre) - 4) :
                  SubSeq(line, from + k, from + k + 2) = " b/"}
        k == SetMin(ks)
    IN  IF /\ StartsWith(line, pre)
           /\ \A i \in from..Len(line) : ~IsLineTerminator(CharAt(line, i))
           /\ ks # {}
        THEN [ok |-> TRUE,
              oldPath |-> SubSeq(line, from, from + k - 1),
              newPath |-> SubSeq(line, from + k + 3, Len(line))]
        ELSE NoMatch

\* The characters of an object id when letters past "f" are let through.
WordChars == HexChars \cup {"g", "z", "G", "Z"}

\* IndexMatch with object ids of such characters: [0-9a-zA-Z] for [0-9a-fA-F]
IndexMatchLoose(line) ==
    LET a == RunEnd(line, 6, Spaces)
        b == RunEnd(line, a, WordChars)
        c == RunEnd(line, b + 2, WordChars)
    IN  IF /\ StartsWith(line, "index")
           /\ a > 6
           /\ b > a
           /\ b + 1 <= Len(line)
           /\ SubSeq(line, b, b + 1) = ".."
           /\ c > b + 2
           /\ (c = Len(line) + 1 \/ IsSpace(CharAt(line, c)))
        THEN [ok |-> TRUE, oldBlob |-> SubSeq(line, a, b - 1),
              newBlob |-> SubSeq(line, b + 2, c - 1)]
        ELSE NoMatch

\* /^index\s+([0-9a-fA-F]+)\.\.([0-9a-fA-F]+)(?:\s|$)/
IndexMatch(line) ==
    LET a == RunEnd(line, 6, Spaces)
        b == RunEnd(line, a, HexChars)
        c == RunEnd(line, b + 2, HexChars)
    IN  IF /\ StartsWith(line, "index")
           /\ a > 6
           /\ b > a
           /\ b + 1 <= Len(line)
           /\ SubSeq(line, b, b + 1) = ".."
           /\ c > b + 2
           /\ (c = Len(line) + 1 \/ IsSpace(CharAt(line, c)))
        THEN [ok |-> TRUE, oldBlob |-> SubSeq(line, a, b - 1),
              newBlob |-> SubSeq(line, b + 2, c - 1)]
        ELSE NoMatch

-----------------------------------------------------------------------------
(* parseGitPatchFileEdits *)

\* An optional field that was never assigned.
unset == "(unset)"

\* pushCurrent without the reset of current.
PushCurrentKeep(st) == [edits |-> st.edits \o st.current, current |-> st.current]

\* pushCurrent
PushCurrent(st) == [edits |-> st.edits \o st.current, current |-> <<>>]

\* One iteration of the loop over the lines: st = [edits, current].
EditLine(st, line) ==
    IF StartsWith(line, "diff --git ") THEN
        LET match == HeaderMatch(line)
            pushed == PushCurrent(st)
        IN  IF ~match.ok THEN pushed
            ELSE [pushed EXCEPT !.current =
                     << [oldPath |-> match.oldPath, newPath |-> match.newPath,
                         status |-> "modified", oldBlob |-> unset, newBlob |-> unset] >>]
    ELSE IF st.current = <<>> THEN st
    ELSE IF StartsWith(line, "new file mode ") THEN
        [st EXCEPT !.current[1].status = "added"]
    ELSE IF StartsWith(line, "deleted file mode ") THEN
        [st EXCEPT !.current[1].status = "deleted"]
    ELSE IF StartsWith(line, "index ") THEN
        LET idxMatch == IndexMatch(line)
        IN  IF idxMatch.ok
            THEN [st EXCEPT !.current[1].oldBlob = idxMatch.oldBlob,
                            !.current[1].newBlob = idxMatch.newBlob]
            ELSE st
    ELSE IF StartsWith(line, "rename from ") THEN
        [st EXCEPT !.current[1].status = "renamed",
                   !.current[1].oldPath = Trim(Substring(line, Len("rename from ")))]
    ELSE IF StartsWith(line, "rename to ") THEN
        [st EXCEPT !.current[1].status = "renamed",
                   !.current[1].newPath = Trim(Substring(line, Len("rename to ")))]
    ELSE st

EditsStart == [edits |-> <<>>, current |-> <<>>]

RECURSIVE EditLines(_, _)
EditLines(st, ls) ==
    IF ls = <<>> THEN st ELSE EditLines(EditLine(st, ls[1]), Tail(ls))

\* The whole function, as a function of its argument.
parseGitPatchFileEdits(content) ==
    PushCurrent(EditLines(EditsStart, SplitPatch(content))).edits

-----------------------------------------------------------------------------
(* parseUnifiedDiffFiles *)

\* `(?:,(\d+))?` at position b: the position after the group, b when it is absent.
OptionalCount(line, b) ==
    LET c == RunEnd(line, b + 1, DigitChars)
    IN  IF CharAt(line, b) = "," /\ c > b + 1 THEN c ELSE b

\* `-(\d+)(?:,(\d+))?` or `\+(\d+)(?:,(\d+))?` with its sign at position p:
\* the two groups and the position after the range.
RangeMatch(line, p, sign) ==
    LET b == RunEnd(line, p + 1, DigitChars)
        g == OptionalCount(line, b)
    IN  IF CharAt(line, p) = sign /\ b > p + 1
        THEN [ok |-> TRUE, start |-> SubSeq(line, p + 1, b - 1),
              has |-> g > b, count |-> SubSeq(line, b + 1, g - 1), end |-> g]
        ELSE [ok |-> FALSE, start |-> "", has |-> FALSE, count |-> "", end |-> p]

\* The rest of the pattern after the old range: `\s+` new range `\s+@@`.
NewRangeMatch(line, old) ==
    LET d == RunEnd(line, old.end, Spaces)
        new == RangeMatch(line, d, "+")
        g == RunEnd(line, new.end, Spaces)
    IN  IF /\ d > old.end
           /\ new.ok
           /\ g > new.end
           /\ SubSeq(line, g, Min(g + 1, Len(line))) = "@@"
        THEN [ok |-> TRUE,
              g1 |-> old.start, has2 |-> old.has, g2 |-> old.count,
              g3 |-> new.start, has4 |-> new.has, g4 |-> new.count]
        ELSE NoMatch

\* /^@@\s+\-(\d+)(?:,(\d+))?\s+\+(\d+)(?:,(\d+))?\s+@@/: the groups g1..g4;
\* has2 and has4 tell whether the optional groups took part in the match.
HunkHeaderMatch(line) ==
    LET a == RunEnd(line, 3, Spaces)
        old == RangeMatch(line, a, "-")
    IN  IF StartsWith(line, "@@") /\ a > 3 /\ old.ok
        THEN NewRangeMatch(line, old)
        ELSE NoMatch

\* parseHunkHeader: the header without its lines, or no match.
parseHunkHeader(line) ==
    LET match == HunkHeaderMatch(line)
    IN  IF ~match.ok THEN NoMatch
        ELSE [ok |-> TRUE,
              oldStart |-> Number(match.g1),
              oldLines |-> IF match.has2 THEN Number(match.g2) ELSE 1,
              newStart |-> Number(match.g3),
              newLines |-> IF match.has4 THEN Number(match.g4) ELSE 1]

\* pushHunk without the reset of currentHunk.
PushHunkKeep(st) ==
    IF st.current # <<>> /\ st.currentHunk # <<>>
    THEN [st EXCEPT !.current[1].hunks = @ \o st.currentHunk]
    ELSE st

\* pushHunk: st = [files, current, currentHunk].
PushHunk(st) ==
    IF st.current # <<>> /\ st.currentHunk # <<>>
    THEN [st EXCEPT !.current[1].hunks = @ \o st.currentHunk, !.currentHunk = <<>>]
    ELSE st

\* pushFile that drops a file with no hunk.
PushFileWithHunks(st) ==
    LET pushed == PushHunk(st)
    IN  IF pushed.current # <<>> /\ pushed.current[1].hunks # <<>>
        THEN [pushed EXCEPT !.files = @ \o pushed.current, !.current = <<>>]
        ELSE [pushed EXCEPT !.current = <<>>]

\* pushFile without the reset of current.
PushFileKeep(st) ==
    LET pushed == PushHunk(st)
    IN  IF pushed.current # <<>>
        THEN [pushed EXCEPT !.files = @ \o pushed.current]
        ELSE pushed

\* pushFile
PushFile(st) ==
    LET pushed == PushHunk(st)
    IN  IF pushed.current # <<>>
        THEN [pushed EXCEPT !.files = @ \o pushed.current, !.current = <<>>]
        ELSE pushed

\* PushLine that takes a `--- path` line inside a hunk for a file header line
\* and skips it.
PushLineSkipDashes(st, kind, text) ==
    IF kind = "del" /\ StartsWith(text, "-- ") THEN st
    ELSE [st EXCEPT !.currentHunk[1].lines = Append(@, [kind |-> kind, text |-> text])]

\* currentHunk.lines.push({ kind, text })
PushLine(st, kind, text) ==
    [st EXCEPT !.currentHunk[1].lines = Append(@, [kind |-> kind, text |-> text])]

\* One iteration of the loop over the lines.
FileLine(st, line) ==
    IF StartsWith(line, "diff --git ") THEN
        LET match == HeaderMatch(line)
            pushed == PushFile(st)
        IN  IF ~match.ok THEN pushed
            ELSE [pushed EXCEPT !.current =
                     << [oldPath |-> match.oldPath, newPath |-> match.newPath,
                         hunks |-> <<>>] >>]
    ELSE IF st.current = <<>> THEN st
    ELSE IF StartsWith(line, "@@") THEN
        LET header == parseHunkHeader(line)
            pushed == PushHunk(st)
        IN  IF ~header.ok THEN pushed
            ELSE [pushed EXCEPT !.currentHunk =
                     << [oldStart |-> header.oldStart, oldLines |-> header.oldLines,
                         newStart |-> header.newStart, newLines |-> header.newLines,
                         lines |-> <<>>] >>]
    ELSE IF st.currentHunk = <<>> THEN st
    ELSE IF StartsWith(line, "\\ No newline at end of file") THEN st
    ELSE LET prefix == CharAt(line, 1)
             text == Substring(line, 1)
         IN  IF prefix = " " THEN PushLine(st, "context", text)
             ELSE IF prefix = "+" THEN PushLine(st, "add", text)
             ELSE IF prefix = "-" THEN PushLine(st, "del", text)
             ELSE st

FilesStart == [files |-> <<>>, current |-> <<>>, currentHunk |-> <<>>]

RECURSIVE FileLines(_, _)
FileLines(st, ls) ==
    IF ls = <<>> THEN st ELSE FileLines(FileLine(st, ls[1]), Tail(ls))

\* The whole function, as a function of its argument.
parseUnifiedDiffFiles(content) ==
    PushFile(FileLines(FilesStart, SplitPatch(content))).files

-----------------------------------------------------------------------------
(* The two parsers as state machines, one line of the patch per step *)

\* What the parsers and the strip-level selection leave alone.
applyData == <<originalText, patch, hunk, original, srcLines, hunkIndex, srcPos, out,
               appliedHunks, rejectedHunks, resultText, kept, placed, placedLines,
               target, find>>

\* part_005, lines 10-12.
EditsSplit ==
    /\ pc = "editsEntry"
    /\ patchLines' = SplitPatch(patchContent)
    /\ lineIx' = 0
    /\ edits' = EditsStart.edits
    /\ current' = EditsStart.current
    /\ pc' = "edits"
    /\ UNCHANGED <<patchContent, files, curFile, curHunk, applyData, stripVars,
                   progressVars>>

\* part_005, lines 21-67: the loop body on the next line.
EditsLine ==
    /\ pc = "edits"
    /\ lineIx < Len(patchLines)
    /\ LET st == EditLine([edits |-> edits, current |-> current], patchLines[lineIx + 1])
       IN  /\ edits' = st.edits
           /\ current' = st.current
    /\ lineIx' = lineIx + 1
    /\ UNCHANGED <<pc, patchContent, patchLines, files, curFile, curHunk, applyData,
                   stripVars,
                   progressVars>>

\* part_005, lines 69-70.
EditsEnd ==
    /\ pc = "edits"
    /\ lineIx = Len(patchLines)
    /\ LET st == PushCurrent([edits |-> edits, current |-> current])
       IN  /\ edits' = st.edits
           /\ current' = st.current
    /\ pc' = "editsDone"
    /\ UNCHANGED <<patchContent, patchLines, lineIx, files, curFile, curHunk, applyData,
                   stripVars,
                   progressVars>>

\* unifiedDiff.ts, lines 36-40.
FilesSplit ==
    /\ pc = "filesEntry"
    /\ patchLines' = SplitPatch(patchContent)
    /\ lineIx' = 0
    /\ files' = FilesStart.files
    /\ curFile' = FilesStart.current
    /\ curHunk' = FilesStart.currentHunk
    /\ pc' = "files"
    /\ UNCHANGED <<patchContent, edits, current, applyData, stripVars,
                   progressVars>>

FilesState == [files |-> files, current |-> curFile, currentHunk |-> curHunk]

\* unifiedDiff.ts, lines 57-104: the loop body on the next line.
FilesLine ==
    /\ pc = "files"
    /\ lineIx < Len(patchLines)
    /\ LET st == FileLine(FilesState, patchLines[lineIx + 1])
       IN  /\ files' = st.files
           /\ curFile' = st.current
           /\ curHunk' = st.currentHunk
    /\ lineIx' = lineIx + 1
    /\ UNCHANGED <<pc, patchContent, patchLines, edits, current, applyData, stripVars,
                   progressVars>>

\* unifiedDiff.ts, lines 106-107.
FilesEnd ==
    /\ pc = "files"
    /\ lineIx = Len(patchLines)
    /\ LET st == PushFile(FilesState)
       IN  /\ files' = st.files
           /\ curFile' = st.current
           /\ curHunk' = st.currentHunk
    /\ pc' = "filesDone"
    /\ UNCHANGED <<patchContent, patchLines, lineIx, edits, current, applyData,
                   stripVars,
                   progressVars>>

\* The caller (part_003, lines 641 and 891) parses the same patch with
\* parseGitPatchFileEdits first and with parseUnifiedDiffFiles after it.
ThenFiles ==
    /\ pc = "editsDone"
    /\ pc' = "filesEntry"
    /\ UNCHANGED <<parserVars, applyData, stripVars,
                   progressVars>>

\* Array.prototype.join(eol) on strings.
RECURSIVE JoinStr(_, _)
JoinStr(ls, eol) ==
    IF Len(ls) = 0 THEN ""
    ELSE IF Len(ls) = 1 THEN ls[1]
    ELSE ls[1] \o eol \o JoinStr(Tail(ls), eol)

\* applyUnifiedDiffToText is not running.
ApplyIdle ==
    /\ originalText = <<>>
    /\ patch = <<>>
    /\ target = <<>>
    /\ hunk = NoHunk
    /\ original = splitText(<<>>)
    /\ srcLines = <<>>
    /\ hunkIndex = 0
    /\ srcPos = 0
    /\ out = <<>>
    /\ appliedHunks = 0
    /\ rejectedHunks = 0
    /\ resultText = <<>>
    /\ kept = LoopStart
    /\ placed = <<>>
    /\ placedLines = <<>>
    /\ find = NoFind

\* A parser is entered with a patch of at most n lines of a set, joined by one
\* of the terminators.
ParserEntry(entry, lineSet, n, eols) ==
    /\ pc = entry
    /\ \E ls \in SeqsUpTo(lineSet, n) : \E eol \in eols : patchContent = JoinStr(ls, eol)
    /\ patchLines = <<>>
    /\ lineIx = 0
    /\ edits = <<>>
    /\ current = <<>>
    /\ files = <<>>
    /\ curFile = <<>>
    /\ curHunk = <<>>
    /\ ApplyIdle
    /\ StripIdle
    /\ ProgressIdle

MaxEditLines == 4
MaxFileLines == 4
MaxHeaderLines == 5
MaxParseLines == 5

\* parseGitPatchFileEdits on header blocks: two well-formed headers, a
\* malformed one, and the metadata lines.
EditInputLines ==
    {"diff --git a/x b/x", "diff --git a/y b/z b/w", "diff --git x y",
     "new file mode 100644", "deleted file mode 100644",
     "index 000..0fc 100644", "index zz..0fc",
     "rename from p", "rename to  q "}

InitEdits == ParserEntry("editsEntry", EditInputLines, MaxEditLines, {"\n"})

NextEdits == EditsSplit \/ EditsLine \/ EditsEnd

SpecEdits == InitEdits /\ [][NextEdits]_vars

\* parseUnifiedDiffFiles on hunk bodies.
FileInputLines ==
    {"diff --git a/x b/x", "@@ -1,2 +1 @@", " a", "+b", "-c",
     "\\ No newline at end of file", "", "xa", "--- a/x"}

InitFiles == ParserEntry("filesEntry", FileInputLines, MaxFileLines, {"\n"})

NextFiles == FilesSplit \/ FilesLine \/ FilesEnd

SpecFiles == InitFiles /\ [][NextFiles]_vars

\* parseUnifiedDiffFiles on well-formed and malformed hunk headers.
HeaderInputLines ==
    {"diff --git a/x b/x", "@@ -1,2 +1 @@", "@@ -1,2 +1", "+b", " a"}

InitHeaders == ParserEntry("filesEntry", HeaderInputLines, MaxHeaderLines, {"\n"})

SpecHeaders == InitHeaders /\ [][NextFiles]_vars

\* Both parsers on the same patch, with "\n" or with "\r\n" terminators.
ParseInputLines ==
    {"diff --git a/x b/x", "diff --git x y", "new file mode 100644",
     "@@ -1,2 +1 @@", "+b"}

InitParse ==
    ParserEntry("editsEntry", ParseInputLines, MaxParseLines, {"\n", "\r\n"})

NextParse == EditsSplit \/ EditsLine \/ EditsEnd \/ ThenFiles
             \/ FilesSplit \/ FilesLine \/ FilesEnd

SpecParse == InitParse /\ [][NextParse]_vars

\* The same on patches with rename lines, outside hunks and inside.
MaxAgreeLines == 4

AgreeInputLines ==
    {"diff --git a/x b/x", "diff --git a/y b/z b/w", "diff --git x y",
     "rename from p", "rename to  q ", "@@ -1 +1 @@", "-rename to r"}

InitAgree ==
    ParserEntry("editsEntry", AgreeInputLines, MaxAgreeLines, {"\n"})

SpecAgree == InitAgree /\ [][NextParse]_vars

-----------------------------------------------------------------------------
(* A patch parsed by parseUnifiedDiffFiles and applied by                   *)
(* applyUnifiedDiffToText, as the caller does (part_003, lines 891-930)     *)

\* A string as a text of the applier: the sequence of its characters.
Chars(s) == [i \in 1..Len(s) |-> CharAt(s, i)]

\* The hunks of a parsed file as patch.hunks of the applier.
ToHunks(hs) ==
    [i \in 1..Len(hs) |->
        [oldStart |-> hs[i].oldStart, oldLines |-> hs[i].oldLines,
         newStart |-> hs[i].newStart, newLines |-> hs[i].newLines,
         lines |-> [j \in 1..Len(hs[i].lines) |->
                       [kind |-> hs[i].lines[j].kind,
                        text |-> Chars(hs[i].lines[j].text)]]]]

\* part_003, lines 913-930: the caller hands a parsed file that has hunks, and
\* the baseline text, to applyUnifiedDiffToText.
Load ==
    /\ pc = "filesDone"
    /\ \E i \in 1..Len(files) :
          /\ Len(files[i].hunks) # 0
          /\ patch' = ToHunks(files[i].hunks)
    /\ pc' = "split"
    /\ UNCHANGED <<originalText, hunk, original, srcLines, hunkIndex, srcPos, out,
                   appliedHunks, rejectedHunks, resultText, kept, placed, placedLines, target, find,
                   parserVars, stripVars,
                   progressVars>>

MaxBodyLines == 2

\* The hunk header `@@ -s,ol +ns,nl @@` of one-digit numbers.
CountHeader(s, ol, ns, nl) ==
    "@@ -" \o Digits[s + 1] \o "," \o Digits[ol + 1]
    \o " +" \o Digits[ns + 1] \o "," \o Digits[nl + 1] \o " @@"

\* Declared starts and counts: the counts are never those of a body of one line.
CountStarts == {0, 1, 2}
Counts == {0, 2}
CountBodyLines == {" a", "+a", "-a"}

\* A patch of one file with one hunk: any declared numbers, any body.
InitCounts ==
    /\ originalText \in Texts
    /\ patch = <<>>
    /\ target = <<>>
    /\ hunk = NoHunk
    /\ pc = "filesEntry"
    /\ original = splitText(<<>>)
    /\ srcLines = <<>>
    /\ hunkIndex = 0
    /\ srcPos = 0
    /\ out = <<>>
    /\ appliedHunks = 0
    /\ rejectedHunks = 0
    /\ resultText = <<>>
    /\ kept = LoopStart
    /\ placed = <<>>
    /\ placedLines = <<>>
    /\ find = NoFind
    /\ \E s \in CountStarts : \E ol \in Counts : \E ns \in Counts : \E nl \in Counts :
          \E body \in SeqsUpTo(CountBodyLines, MaxBodyLines) :
              patchContent = JoinStr(<<"diff --git a/x b/x", CountHeader(s, ol, ns, nl)>>
                                     \o body, "\n")
    /\ patchLines = <<>>
    /\ lineIx = 0
    /\ edits = <<>>
    /\ current = <<>>
    /\ files = <<>>
    /\ curFile = <<>>
    /\ curHunk = <<>>
    /\ StripIdle
    /\ ProgressIdle

NextCounts == FilesSplit \/ FilesLine \/ FilesEnd \/ Load
              \/ Split \/ NextPatchHunk \/ ApplyStep \/ FinishPatch

SpecCounts == InitCounts /\ [][NextCounts]_vars

-----------------------------------------------------------------------------
(* selectStripLevelForPatch (src/src/gitApply.ts) *)

\* The loop of getStripCandidates: the candidates not seen before, in order.
RECURSIVE Unique(_, _, _)
Unique(candidates, seen, unique) ==
    IF candidates = <<>> THEN unique
    ELSE IF candidates[1] \in seen THEN Unique(Tail(candidates), seen, unique)
    ELSE Unique(Tail(candidates), seen \cup {candidates[1]}, Append(unique, candidates[1]))

getStripCandidates(preferred) == Unique(<<preferred, 0, 1, 2, 3>>, {}, <<>>)

\* The test of source line 64 with no look at the text of the --stat output.
AcceptsAnyStat(chk, st) == chk.exitCode = 0 /\ st.exitCode = 0

\* The test of source lines 63-64 on the results of the two runs.
Accepts(chk, st) ==
    LET statOut == Trim(st.output)
    IN  /\ chk.exitCode = 0
        /\ st.exitCode = 0
        /\ statOut # ""
        /\ statOut # "0 files changed"

\* The args of applyPatchWithGit (source line 85), which changes the work tree,
\* in the place of those of the --check run.
ApplyArgs(strip) == <<"apply", "-p" \o ToString(strip), "--whitespace=nowarn", "-">>

\* The args of the two runs of source lines 50 and 57, and the params runGit
\* is called with.
CheckArgs(strip) == <<"apply", "-p" \o ToString(strip), "--check", "--whitespace=nowarn", "-">>
StatArgs(strip) == <<"apply", "-p" \o ToString(strip), "--stat", "-">>

GitParams(args, content) ==
    [args |-> args, allowedExitCodes |-> {0, 1}, stdin |-> content]

MaxPreferredStrip == 4

\* params.preferredStrip, or what guessPreferredStripLevel returns for it.
PreferredStrips == 0..MaxPreferredStrip

\* What runGit can do: throw, or return an exit code among allowedExitCodes
\* and an output.
Threw == [exitCode |-> undefined, output |-> "", threw |-> TRUE]
CheckResults == {Threw} \cup [exitCode : {0, 1}, output : {""}, threw : {FALSE}]
StatOutputs == {"", "0 files changed", " 0 files changed\n", " 1 file changed\n"}
StatResults == {Threw} \cup [exitCode : {0, 1}, output : StatOutputs, threw : {FALSE}]

\* params.patchContent
StripPatches == {"", "diff --git a/x b/x\n", "diff --git a/x b/x\r\n@@ -1 +1 @@\r\n-a\r\n+b\r\n"}

InitStrip ==
    /\ pc = "stripEntry"
    /\ preferredStrip \in PreferredStrips
    /\ stripCandidates = <<>>
    /\ candIx = 0
    /\ check = NoRun
    /\ stat = NoRun
    /\ probed = <<>>
    /\ selectedStrip = undefined
    /\ gitCalls = <<>>
    /\ ApplyIdle
    /\ ProgressIdle
    /\ patchContent \in StripPatches
    /\ patchLines = <<>>
    /\ lineIx = 0
    /\ edits = <<>>
    /\ current = <<>>
    /\ files = <<>>
    /\ curFile = <<>>
    /\ curHunk = <<>>

\* Source lines 44-45.
Candidates ==
    /\ pc = "stripEntry"
    /\ stripCandidates' = getStripCandidates(preferredStrip)
    /\ candIx' = 0
    /\ pc' = "probe"
    /\ UNCHANGED <<preferredStrip, check, stat, probed, selectedStrip, gitCalls,
                   applyData, parserVars,
                   progressVars>>

\* Source lines 47-54: the loop takes the next candidate and awaits the --check
\* run; when runGit throws, the catch goes on to the next candidate.
RunCheck ==
    /\ pc = "probe"
    /\ candIx < Len(stripCandidates)
    /\ candIx' = candIx + 1
    /\ gitCalls' = Append(gitCalls, GitParams(CheckArgs(stripCandidates[candIx + 1]),
                                              patchContent))
    /\ \E r \in CheckResults :
          /\ check' = r
          /\ stat' = NoRun
          /\ IF r.threw
             THEN /\ probed' = Append(probed, [strip |-> stripCandidates[candIx + 1],
                                               threw |-> TRUE, accepted |-> FALSE])
                  /\ pc' = "probe"
             ELSE /\ probed' = probed
                  /\ pc' = "stat"
    /\ UNCHANGED <<preferredStrip, stripCandidates, selectedStrip, applyData, parserVars,
                   progressVars>>

\* Source lines 56-69: the --stat run and the test; the candidate is returned
\* or the loop goes on.
RunStat ==
    /\ pc = "stat"
    /\ gitCalls' = Append(gitCalls, GitParams(StatArgs(stripCandidates[candIx]),
                                              patchContent))
    /\ \E r \in StatResults :
          /\ stat' = r
          /\ LET accepted == ~r.threw /\ Accepts(check, r)
             IN  /\ probed' = Append(probed, [strip |-> stripCandidates[candIx],
                                              threw |-> r.threw, accepted |-> accepted])
                 /\ IF accepted
                    THEN selectedStrip' = stripCandidates[candIx] /\ pc' = "selected"
                    ELSE selectedStrip' = selectedStrip /\ pc' = "probe"
    /\ UNCHANGED <<preferredStrip, stripCandidates, candIx, check, applyData, parserVars,
                   progressVars>>

\* Source line 72.
ReturnPreferred ==
    /\ pc = "probe"
    /\ candIx = Len(stripCandidates)
    /\ selectedStrip' = preferredStrip
    /\ pc' = "selected"
    /\ UNCHANGED <<preferredStrip, stripCandidates, candIx, check, stat, probed,
                   gitCalls, applyData, parserVars,
                   progressVars>>

NextStrip == Candidates \/ RunCheck \/ RunStat \/ ReturnPreferred

SpecStrip == InitStrip /\ [][NextStrip]_vars

-----------------------------------------------------------------------------
(* withStepProgress (src/src/progressSteps.ts) *)

\* A detail that is undefined or empty is left out; " -- " stands for the dash
\* between blanks of the source.
formatStepMessage(step, totalSteps, intent, detail) ==
    LET boundedStep == Max(1, Min(step, totalSteps))
        base == "Step " \o ToString(boundedStep) \o "/" \o ToString(totalSteps) \o ": "
                \o intent
    IN  IF detail # "" THEN base \o " -- " \o detail ELSE base

\* The increment of next without the cap at what remains of the bar.
NextIncrementRaw(soFar, totalSteps) == 100

\* Source lines 60-62, in units of 1/totalSteps: rawIncrement = 100 / totalSteps
\* is 100 units, the whole bar is 100 * totalSteps units.
NextIncrement(soFar, totalSteps) ==
    LET remaining == Max(0, 100 * totalSteps - soFar)
        rawIncrement == 100
    IN  Min(remaining, rawIncrement)

MaxTotalSteps == 3
MaxReports == 4

TotalSteps == 1..MaxTotalSteps
Titles == {"Work"}
Intents == {"First", ""}
Details == {"", "extra"}
TaskValues == {"123"}
TaskErrors == {"boom"}

InitProgress ==
    /\ pc = "progressEntry"
    /\ params \in [title : Titles, totalSteps : TotalSteps]
    /\ status = [text |-> "", events |-> <<>>]
    /\ currentStep = 0
    /\ progressSoFar = 0
    /\ currentIntent = ""
    /\ reports = <<>>
    /\ settled = Pending
    /\ returned = Pending
    /\ ApplyIdle
    /\ ParserIdle
    /\ StripIdle

\* Source lines 43-49: the status bar item is created and shown, the locals
\* are set, and the task is called.
Show ==
    /\ pc = "progressEntry"
    /\ status' = [text |-> params.title, events |-> <<"show">>]
    /\ currentStep' = 0
    /\ progressSoFar' = 0
    /\ currentIntent' = ""
    /\ pc' = "task"
    /\ UNCHANGED <<params, reports, settled, returned, applyData, parserVars, stripVars>>

\* Source lines 58-65: reporter.next, with report (lines 51-56).
ReporterNext(intent, detail) ==
    /\ pc = "task"
    /\ Len(reports) < MaxReports
    /\ LET step == Min(params.totalSteps, currentStep + 1)
           increment == NextIncrement(progressSoFar, params.totalSteps)
           msg == formatStepMessage(step, params.totalSteps, intent, detail)
       IN  /\ currentStep' = step
           /\ progressSoFar' = progressSoFar + increment
           /\ currentIntent' = intent
           /\ reports' = Append(reports, [message |-> msg, increment |-> increment])
           /\ status' = [status EXCEPT !.text = params.title \o ": " \o msg]
    /\ UNCHANGED <<pc, params, settled, returned, applyData, parserVars, stripVars>>

\* Source lines 66-76: reporter.detail; its report has no increment.
ReporterDetail(detail) ==
    /\ pc = "task"
    /\ Len(reports) < MaxReports
    /\ LET stepToShow == IF currentStep > 0 THEN currentStep ELSE 1
           msg == formatStepMessage(stepToShow, params.totalSteps,
                                    IF currentIntent # "" THEN currentIntent ELSE "Working",
                                    detail)
       IN  /\ reports' = Append(reports, [message |-> msg, increment |-> undefined])
           /\ status' = [status EXCEPT !.text = params.title \o ": " \o msg]
    /\ UNCHANGED <<pc, params, currentStep, progressSoFar, currentIntent, settled,
                   returned, applyData, parserVars, stripVars>>

\* Source line 80: the awaited task resolves or throws.
TaskSettles(outcome) ==
    /\ pc = "task"
    /\ settled' = outcome
    /\ pc' = "finally"
    /\ UNCHANGED <<params, status, currentStep, progressSoFar, currentIntent, reports,
                   returned, applyData, parserVars, stripVars>>

\* Source lines 81-84: the finally block, then the value is returned or the
\* error goes on to the caller.
Finally ==
    /\ pc = "finally"
    /\ status' = [status EXCEPT !.events = @ \o <<"hide", "dispose">>]
    /\ returned' = settled
    /\ pc' = "progressDone"
    /\ UNCHANGED <<params, currentStep, progressSoFar, currentIntent, reports, settled,
                   applyData, parserVars, stripVars>>

Reporter ==
    \/ \E intent \in Intents, detail \in Details : ReporterNext(intent, detail)
    \/ \E detail \in Details : ReporterDetail(detail)

Task ==
    \/ \E v \in TaskValues : TaskSettles([kind |-> "resolved", value |-> v])
    \/ \E e \in TaskErrors : TaskSettles([kind |-> "threw", value |-> e])

NextProgress == Show \/ Reporter \/ Task \/ Finally

SpecProgress == InitProgress /\ [][NextProgress]_vars

-----------------------------------------------------------------------------
(* What the claims speak of, stated apart from the code *)

\* The pre-image of a hunk: the texts of its context and del lines, in order.
IsOldLine(l) == l.kind # "add"
PreImage(lines) ==
    LET old == SelectSeq(lines, IsOldLine) IN [i \in 1..Len(old) |-> old[i].text]

IsAddLine(l) == l.kind = "add"
AddTexts(lines) ==
    LET new == SelectSeq(lines, IsAddLine) IN [i \in 1..Len(new) |-> new[i].text]

\* The pre-image pre lies in src at the 0-based position p.
OccursAt(src, p, pre) ==
    /\ p >= 0
    /\ p + Len(pre) <= Len(src)
    /\ \A i \in 1..Len(pre) : src[p + i] = pre[i]

Occurrences(src, pre, from) ==
    {p \in from..(Len(src) - Len(pre)) : OccursAt(src, p, pre)}

\* The source lines [from, to), as far as the source has them.
GapLines(src, from, to) ==
    [i \in 1..(Min(to, Len(src)) - from) |-> src[from + i]]

\* A single linear scan from lowerBound that returns the first match.
LinearScan(src, pre, lowerBound) ==
    IF Occurrences(src, pre, lowerBound) = {} THEN undefined
    ELSE SetMin(Occurrences(src, pre, lowerBound))

\* The lines joined by "\n".
RECURSIVE JoinedByLF(_)
JoinedByLF(lines) ==
    IF Len(lines) = 0 THEN <<>>
    ELSE IF Len(lines) = 1 THEN lines[1]
    ELSE JoinedByLF(SubSeq(lines, 1, Len(lines) - 1)) \o <<LF>> \o lines[Len(lines)]

DropOneTrailingLF(text) ==
    IF Len(text) > 0 /\ text[Len(text)] = LF THEN SubSeq(text, 1, Len(text) - 1)
    ELSE text

\* The applied hunk of the step at hand: the last range of placed'.
LastPlaced(ranges) == ranges[Len(ranges)]

-----------------------------------------------------------------------------
(* C1 *)

C1_Step ==
    rejectedHunks' # rejectedHunks =>
        /\ out' = out
        /\ srcPos' = srcPos
        /\ appliedHunks' = appliedHunks

C1_Kept ==
    /\ kept.srcPos = srcPos
    /\ kept.out = out
    /\ kept.appliedHunks = appliedHunks
    /\ kept.rejectedHunks = 0
    /\ pc = "done" =>
          resultText = joinText([lines |-> kept.out
                                             \o Slice(srcLines, kept.srcPos, Len(srcLines)),
                                 eol |-> original.eol,
                                 endsWithNewline |-> original.endsWithNewline])

\* C1: a rejected hunk has no effect: the step that rejects a hunk leaves out,
\* srcPos and appliedHunks as they were, and the loop state and the returned
\* text and appliedHunks are those of the run over the same hunks with the
\* rejected ones removed (kept).
C1_RejectedHunkHasNoEffect == []C1_Kept /\ [][C1_Step]_vars

\* A run that rejected one hunk and applied another, and changed the text.
C1_Witness ==
    /\ pc = "done"
    /\ rejectedHunks > 0
    /\ appliedHunks > 0
    /\ resultText # originalText

-----------------------------------------------------------------------------
(* C2 *)

\* C2: round trip: applying the diff generated between originalText and target
\* to originalText returns target, with no hunk rejected.
C2_RoundTrip ==
    pc = "done" => (resultText = target /\ rejectedHunks = 0)

-----------------------------------------------------------------------------
(* C3 *)

\* C3: when the hunk list applied with no rejection, applying it again to the
\* returned text rejects every hunk, applies none and returns that text.
C3_ReapplyRejectsAll ==
    (pc = "done" /\ rejectedHunks = 0) =>
        LET again == applyUnifiedDiffToText(resultText, patch)
        IN  /\ again.rejectedHunks = Len(patch)
            /\ again.appliedHunks = 0
            /\ again.text = resultText

-----------------------------------------------------------------------------
(* C4 *)

\* C4: when no hunk was applied (every hunk rejected, or no hunk at all), the
\* returned text is originalText.
C4_AllRejectedReturnsOriginal ==
    (pc = "done" /\ appliedHunks = 0) => resultText = originalText

-----------------------------------------------------------------------------
(* C5 *)

\* C5: a non-empty pre-image is rejected exactly when it occurs at no position
\* from the lower bound on, and an accepted position is such an occurrence.
C5_RejectedIffNoOccurrence ==
    (find.done /\ find.expected # <<>>) =>
        LET occ == Occurrences(find.src, find.expected, find.lowerBoundPos)
        IN  /\ (find.result = undefined) <=> (occ = {})
            /\ find.result # undefined => find.result \in occ

\* A match that lies outside the window and is found by the fallback scan.
C5_Witness ==
    /\ find.done
    /\ find.expected # <<>>
    /\ find.result # undefined
    /\ find.result > find.preferredPos + window

-----------------------------------------------------------------------------
(* C6 *)

\* C6 as stated: the position the search chooses for a (non-empty) pre-image is
\* the one a linear scan from the lower bound returns.
C6_SameAsLinearScan ==
    (find.done /\ find.expected # <<>>) =>
        find.result = LinearScan(find.src, find.expected, find.lowerBoundPos)

\* C6: for a non-empty pre-image and a preferred position at most a window
\* past the lower bound, findBestHunkPosition returns what the linear scan
\* from the lower bound returns.
C6_SameAsLinearScanNearLowerBound ==
    (/\ find.done
     /\ find.expected # <<>>
     /\ find.preferredPos - window <= find.lowerBoundPos) =>
        find.result = LinearScan(find.src, find.expected, find.lowerBoundPos)

\* Two occurrences from the lower bound on, the preferred position at the
\* later one: the earlier one is returned.
C6_Witness ==
    /\ find.done
    /\ find.expected # <<>>
    /\ find.preferredPos - window <= find.lowerBoundPos
    /\ find.result # undefined
    /\ find.result < find.preferredPos
    /\ OccursAt(find.src, find.preferredPos, find.expected)

-----------------------------------------------------------------------------
(* C7 *)

C7_Step ==
    /\ srcPos' >= srcPos
    /\ appliedHunks' = appliedHunks + 1 =>
          /\ LastPlaced(placed').from >= srcPos
          /\ Len(out') >= Len(out) + (Min(LastPlaced(placed').from, Len(srcLines)) - srcPos)
          /\ SubSeq(out', 1, Len(out)
                              + Len(GapLines(srcLines, srcPos, LastPlaced(placed').from)))
                = out \o GapLines(srcLines, srcPos, LastPlaced(placed').from)
    /\ (/\ pc = "hunk"
        /\ PreImage(hunk.lines) # <<>>
        /\ Occurrences(srcLines, PreImage(hunk.lines), srcPos) = {}) =>
          /\ rejectedHunks' = rejectedHunks + 1
          /\ appliedHunks' = appliedHunks

C7_Ranges ==
    /\ srcPos >= 0
    /\ Len(placed) = appliedHunks
    /\ \A i \in 1..Len(placed) : 0 <= placed[i].from /\ placed[i].from <= placed[i].to
    /\ \A i \in 1..(Len(placed) - 1) : placed[i].to <= placed[i + 1].from
    /\ Len(placed) > 0 => srcPos = LastPlaced(placed).to

\* C7: srcPos starts at 0 and never decreases; every applied hunk is placed at
\* or after the srcPos the hunks before it left, so the applied hunks take
\* disjoint source ranges in increasing order; the source lines from srcPos to
\* the hunk are copied to the output as they are; a hunk whose pre-image occurs
\* nowhere from srcPos on (even if it occurs before) is rejected.
C7_CursorNeverGoesBack == []C7_Ranges /\ [][C7_Step]_vars

\* Two applied hunks, the first one taking source lines, with source lines
\* between them.
C7_Witness ==
    /\ Len(placed) = 2
    /\ placed[1].from < placed[1].to
    /\ placed[1].to < placed[2].from
    /\ placed[2].from <= Len(srcLines)

-----------------------------------------------------------------------------
(* C8 *)

C8_Step ==
    (pc = "hunk" /\ PreImage(hunk.lines) = <<>>) =>
        LET p == Max(srcPos, Max(0, hunk.oldStart - 1))
        IN  /\ appliedHunks' = appliedHunks + 1
            /\ rejectedHunks' = rejectedHunks
            /\ LastPlaced(placed') = [from |-> p, to |-> p]
            /\ out' = out \o GapLines(srcLines, srcPos, p) \o AddTexts(hunk.lines)

\* C8: a hunk with an empty pre-image is never rejected: it is applied at
\* max(srcPos, preferredPos), and the output gains the source lines from srcPos
\* to that position followed by the hunk's add lines.
C8_PureInsertionAlwaysApplied == [][C8_Step]_vars

\* A pure insertion applied past the cursor, after source lines were copied.
C8_Witness ==
    /\ pc = "loop"
    /\ \E i \in 1..Len(placed) :
          /\ placed[i].from = placed[i].to
          /\ placed[i].from > (IF i = 1 THEN 0 ELSE placed[i - 1].to)
          /\ placed[i].from <= Len(srcLines)
    /\ Len(out) > 1

-----------------------------------------------------------------------------
(* C9 *)

\* The empty baseline and the single hunk @@ -0,0 +1,N @@ of N add lines.
C9_Case ==
    /\ pc = "done"
    /\ originalText = <<>>
    /\ Len(patch) = 1
    /\ patch[1].oldStart = 0
    /\ PreImage(patch[1].lines) = <<>>

\* C9 as stated: the returned text is the N added lines joined by "\n".
C9_EmptyBaselineJoinsAddedLines ==
    C9_Case =>
        /\ appliedHunks = 1
        /\ rejectedHunks = 0
        /\ resultText = JoinedByLF(AddTexts(patch[1].lines))

\* C9: on the empty baseline the hunk is applied, none is rejected, and the
\* returned text is the N added lines joined by "\n", less one trailing "\n"
\* (there is one when the last added line is empty).
C9_EmptyBaselineJoinsAddedLinesTrimmed ==
    C9_Case =>
        /\ appliedHunks = 1
        /\ rejectedHunks = 0
        /\ resultText = DropOneTrailingLF(JoinedByLF(AddTexts(patch[1].lines)))

\* Two added lines, the last one empty.
C9_Witness ==
    /\ C9_Case
    /\ Len(patch[1].lines) = 2
    /\ patch[1].lines[2].text = <<>>
    /\ resultText = <<"a">>

-----------------------------------------------------------------------------
(* C10 *)

\* C10: every "\n" of the returned text follows a "\r" when originalText holds
\* "\r\n", and none does otherwise.
C10_OneLineTerminator ==
    pc = "done" =>
        \A i \in 1..Len(resultText) :
            resultText[i] = LF =>
                (IncludesCRLF(originalText) <=> (i > 1 /\ resultText[i - 1] = CR))

-----------------------------------------------------------------------------
(* C11 *)

-----------------------------------------------------------------------------
(* C12 *)

C12_Step ==
    appliedHunks' = appliedHunks + 1 =>
        LET r == LastPlaced(placed')
            pre == PreImage(hunk.lines)
        IN  /\ r.to - r.from = Len(pre)
            /\ \A i \in 1..Len(pre) :
                   /\ r.from + i <= Len(srcLines)
                   /\ srcLines[r.from + i] = pre[i]

\* C12: the source lines an applied hunk consumed, [foundPos, foundPos + number
\* of context and del lines), equal the hunk's context and del lines string for
\* string and in order.
C12_ExactMatchPerLine == [][C12_Step]_vars

\* A hunk applied at the second line, past a first line that differs from its
\* pre-image in a trailing blank only.
C12_Witness ==
    /\ pc = "done"
    /\ appliedHunks = 1
    /\ placed[1] = [from |-> 1, to |-> 2]
    /\ srcLines[1] = <<"a", " ">>
    /\ PreImage(patch[1].lines) = << <<"a">> >>

-----------------------------------------------------------------------------
(* What the claims say of a patch, stated apart from the parsers *)

\* The elements of a finite set of numbers in increasing order.
RECURSIVE Sorted(_)
Sorted(S) == IF S = {} THEN <<>> ELSE <<SetMin(S)>> \o Sorted(S \ {SetMin(S)})

\* The last element of a non-empty sequence.
Last(seq) == seq[Len(seq)]

IsDiffGitLine(l) == StartsWith(l, "diff --git ")

\* The places where " b/" can split the rest of a header line into two
\* non-empty paths.
HeaderCuts(l) ==
    {k \in (Len("diff --git a/") + 2)..(Len(l) - 3) : SubSeq(l, k, k + 2) = " b/"}

\* `diff --git a/<old> b/<new>` with non-empty paths.
WellFormedHeader(l) == StartsWith(l, "diff --git a/") /\ HeaderCuts(l) # {}

HeaderOld(l) == SubSeq(l, Len("diff --git a/") + 1, SetMin(HeaderCuts(l)) - 1)
HeaderNew(l) == SubSeq(l, SetMin(HeaderCuts(l)) + 3, Len(l))

\* The positions of the well-formed headers among the lines ls, in order.
HeaderPositions(ls) == Sorted({p \in 1..Len(ls) : WellFormedHeader(ls[p])})

\* The block of the header at position p: the lines after it up to the next
\* line that starts with `diff --git `, or to the end.
BlockEnd(ls, p) ==
    SetMin({q \in (p + 1)..(Len(ls) + 1) : q = Len(ls) + 1 \/ IsDiffGitLine(ls[q])})
Block(ls, p) == SubSeq(ls, p + 1, BlockEnd(ls, p) - 1)

IsRenameFrom(l) == StartsWith(l, "rename from ")
IsRenameTo(l) == StartsWith(l, "rename to ")
IsNewFile(l) == StartsWith(l, "new file mode ")
IsDeletedFile(l) == StartsWith(l, "deleted file mode ")
IsStatusLine(l) == IsNewFile(l) \/ IsDeletedFile(l) \/ IsRenameFrom(l) \/ IsRenameTo(l)

\* The path a rename line names.
RenamePath(l) ==
    IF IsRenameFrom(l) THEN Trim(SubSeq(l, Len("rename from ") + 1, Len(l)))
    ELSE Trim(SubSeq(l, Len("rename to ") + 1, Len(l)))

\* `index <old>..<new>`: blanks, hexadecimal digits, "..", hexadecimal digits,
\* and then a blank or the end of the line.
WellFormedIndex(l) ==
    /\ StartsWith(l, "index ")
    /\ \E a \in 7..Len(l) : \E b \in (a + 1)..Len(l) : \E c \in (b + 3)..(Len(l) + 1) :
          /\ \A i \in 6..(a - 1) : IsSpace(CharAt(l, i))
          /\ \A i \in a..(b - 1) : IsHex(CharAt(l, i))
          /\ SubSeq(l, b, b + 1) = ".."
          /\ \A i \in (b + 2)..(c - 1) : IsHex(CharAt(l, i))
          /\ (c = Len(l) + 1 \/ IsSpace(CharAt(l, c)))

\* The two object ids of a well-formed index line.
IndexOld(l) ==
    LET a == RunEnd(l, 6, Spaces) IN SubSeq(l, a, RunEnd(l, a, HexChars) - 1)
IndexNew(l) ==
    LET b == RunEnd(l, RunEnd(l, 6, Spaces), HexChars)
    IN  SubSeq(l, b + 2, RunEnd(l, b + 2, HexChars) - 1)

-----------------------------------------------------------------------------
(* C13 *)

\* C13: parseGitPatchFileEdits has one FileEdit, emitted or still open, for
\* each well-formed `diff --git a/<old> b/<new>` line it has read, in the order
\* of these lines: the i-th FileEdit has the paths of the i-th such header (or
\* those of a rename line of its block); there is none when there is no such
\* header; and at the end of the input the open one is emitted, none stays open.
C13_OneEditPerHeader ==
    pc \in {"edits", "editsDone"} =>
        LET seen == SubSeq(patchLines, 1, lineIx)
            hp == HeaderPositions(seen)
            all == edits \o current
        IN  /\ Len(all) = Len(hp)
            /\ \A i \in 1..Len(hp) :
                  LET blk == Block(seen, hp[i])
                  IN  /\ \/ all[i].oldPath = HeaderOld(seen[hp[i]])
                         \/ \E j \in 1..Len(blk) :
                               IsRenameFrom(blk[j]) /\ all[i].oldPath = RenamePath(blk[j])
                      /\ \/ all[i].newPath = HeaderNew(seen[hp[i]])
                         \/ \E j \in 1..Len(blk) :
                               IsRenameTo(blk[j]) /\ all[i].newPath = RenamePath(blk[j])
            /\ pc = "editsDone" => current = <<>>

\* Two FileEdits from two different headers with a malformed header after
\* them, the second one emitted by that header or by the end of the input.
C13_Witness ==
    /\ pc = "editsDone"
    /\ Len(edits) = 2
    /\ edits[1].oldPath = "y"
    /\ edits[2].oldPath = "x"
    /\ \E p \in 1..Len(patchLines) :
          IsDiffGitLine(patchLines[p]) /\ ~WellFormedHeader(patchLines[p])

-----------------------------------------------------------------------------
(* C14 *)

\* What the block blk of the header line h amounts to.
Classified(h, blk) ==
    LET statusLines == SelectSeq(blk, IsStatusLine)
        from == SelectSeq(blk, IsRenameFrom)
        to == SelectSeq(blk, IsRenameTo)
        index == SelectSeq(blk, WellFormedIndex)
    IN  [status |-> IF statusLines = <<>> THEN "modified"
                    ELSE IF IsNewFile(Last(statusLines)) THEN "added"
                    ELSE IF IsDeletedFile(Last(statusLines)) THEN "deleted"
                    ELSE "renamed",
         oldPath |-> IF from = <<>> THEN HeaderOld(h) ELSE RenamePath(Last(from)),
         newPath |-> IF to = <<>> THEN HeaderNew(h) ELSE RenamePath(Last(to)),
         oldBlob |-> IF index = <<>> THEN unset ELSE IndexOld(Last(index)),
         newBlob |-> IF index = <<>> THEN unset ELSE IndexNew(Last(index))]

\* C14: the FileEdit of a header block is `modified` with the header's paths
\* unless the block says otherwise: its status is that of the last `new file
\* mode`, `deleted file mode` or rename line of the block, its paths those of
\* the last `rename from` and `rename to` lines, and its object ids those of
\* the last well-formed `index <old>..<new>` line, unset when there is none.
C14_StatusClassification ==
    pc = "editsDone" =>
        LET hp == HeaderPositions(patchLines)
        IN  /\ Len(edits) = Len(hp)
            /\ \A i \in 1..Len(hp) :
                  edits[i] = Classified(patchLines[hp[i]], Block(patchLines, hp[i]))

\* A block with `new file mode` and then a rename pair, and no well-formed
\* index line: renamed, both paths overwritten, object ids unset.
C14_Witness ==
    /\ pc = "editsDone"
    /\ Len(edits) = 1
    /\ edits[1] = [oldPath |-> "p", newPath |-> "q", status |-> "renamed",
                   oldBlob |-> unset, newBlob |-> unset]
    /\ \E p \in 1..Len(patchLines) : IsNewFile(patchLines[p])

-----------------------------------------------------------------------------
(* C15 *)

HasCR(s) == \E i \in 1..Len(s) : CharAt(s, i) = CR

\* The text with every "\n" replaced by "\r\n".
RECURSIVE ToCRLF(_)
ToCRLF(text) ==
    IF LFs(text) = {} THEN text
    ELSE LET i == SetMin(LFs(text))
         IN  SubSeq(text, 1, i - 1) \o "\r\n" \o ToCRLF(SubSeq(text, i + 1, Len(text)))

\* All hunks of the files, in order.
RECURSIVE AllHunks(_)
AllHunks(fs) == IF fs = <<>> THEN <<>> ELSE fs[1].hunks \o AllHunks(Tail(fs))

\* C15: a patch with "\n" terminators and the same patch with every "\n"
\* replaced by "\r\n" parse to the same result, in parseGitPatchFileEdits and in
\* parseUnifiedDiffFiles, and no "\r" is left in a path or in a line text.
C15_CrlfTolerance ==
    (pc = "filesDone" /\ ~HasCR(patchContent)) =>
        LET crlf == ToCRLF(patchContent)
        IN  /\ parseGitPatchFileEdits(crlf) = edits
            /\ parseUnifiedDiffFiles(crlf) = files
            /\ \A i \in 1..Len(edits) : ~HasCR(edits[i].oldPath) /\ ~HasCR(edits[i].newPath)
            /\ \A i \in 1..Len(files) : ~HasCR(files[i].oldPath) /\ ~HasCR(files[i].newPath)
            /\ \A i \in 1..Len(AllHunks(files)) :
                  \A j \in 1..Len(AllHunks(files)[i].lines) :
                      ~HasCR(AllHunks(files)[i].lines[j].text)

\* A patch of several "\n"-terminated lines with a file, a status line and a
\* hunk with a line.
C15_Witness ==
    /\ pc = "filesDone"
    /\ ~HasCR(patchContent)
    /\ Len(edits) = 1
    /\ edits[1].status = "added"
    /\ Len(files) = 1
    /\ Len(files[1].hunks) = 1
    /\ files[1].hunks[1].lines = <<[kind |-> "add", text |-> "b"]>>

-----------------------------------------------------------------------------
(* C16 *)

IsPrefix(s, t) == Len(s) <= Len(t) /\ SubSeq(t, 1, Len(s)) = s

\* The open file entry with its open hunk, as it is finalized.
Closed(cf, ch) == IF cf = <<>> THEN <<>> ELSE <<[cf[1] EXCEPT !.hunks = @ \o ch]>>

C16_Step ==
    /\ IsPrefix(edits, edits')
    /\ IsPrefix(files, files')
    /\ (pc = "edits" /\ lineIx < Len(patchLines)) =>
          LET l == patchLines[lineIx + 1]
          IN  /\ IsDiffGitLine(l) =>
                    /\ edits' = edits \o current
                    /\ ~WellFormedHeader(l) => current' = <<>>
              /\ (current = <<>> /\ ~WellFormedHeader(l)) =>
                    (edits' = edits /\ current' = <<>>)
    /\ (pc = "files" /\ lineIx < Len(patchLines)) =>
          LET l == patchLines[lineIx + 1]
          IN  /\ IsDiffGitLine(l) =>
                    /\ files' = files \o Closed(curFile, curHunk)
                    /\ curHunk' = <<>>
                    /\ ~WellFormedHeader(l) => curFile' = <<>>
              /\ (curFile = <<>> /\ ~WellFormedHeader(l)) =>
                    (files' = files /\ curFile' = <<>> /\ curHunk' = <<>>)

\* C16: in both parsers a line that starts with `diff --git ` finalizes the
\* open entry, and a finalized entry never changes; when the line is not a
\* well-formed header no entry is open after it, and while none is open every
\* line but a well-formed header changes nothing.
C16_MalformedHeaderOpensNothing == [][C16_Step]_vars

\* A file, then a malformed header followed by a status line, a hunk header
\* and a body line, all of which went to no entry.
C16_Witness ==
    /\ pc = "filesDone"
    /\ Len(patchLines) = 5
    /\ WellFormedHeader(patchLines[1])
    /\ IsDiffGitLine(patchLines[2]) /\ ~WellFormedHeader(patchLines[2])
    /\ IsNewFile(patchLines[3])
    /\ StartsWith(patchLines[4], "@@")
    /\ patchLines[5] = "+b"
    /\ Len(edits) = 1
    /\ edits[1].status = "modified"
    /\ Len(files) = 1
    /\ files[1].hunks = <<>>

-----------------------------------------------------------------------------
(* C17 *)

C17_Step ==
    (pc = "files" /\ lineIx < Len(patchLines)) =>
        LET l == patchLines[lineIx + 1]
        IN  /\ (curFile # <<>> /\ StartsWith(l, "@@") /\ ~HunkHeaderMatch(l).ok) =>
                  /\ files' = files
                  /\ curFile' = Closed(curFile, curHunk)
                  /\ curHunk' = <<>>
            /\ (curHunk = <<>> /\ ~StartsWith(l, "@@") /\ ~IsDiffGitLine(l)) =>
                  UNCHANGED <<files, curFile, curHunk,
                   progressVars>>

\* C17: a line that starts with `@@` and is no hunk header closes the open
\* hunk, which is kept with the lines it has, and opens none; while no hunk is
\* open every line but a hunk header or a file header changes nothing.
C17_MalformedHunkHeaderOpensNothing == [][C17_Step]_vars

\* A hunk with one line, closed by a malformed hunk header, and a body line
\* after it that went to no hunk.
C17_Witness ==
    /\ pc = "filesDone"
    /\ Len(patchLines) = 5
    /\ patchLines[4] = "@@ -1,2 +1"
    /\ patchLines[5] = "+b"
    /\ Len(files) = 1
    /\ Len(files[1].hunks) = 1
    /\ files[1].hunks[1].lines = <<[kind |-> "context", text |-> "a"]>>

-----------------------------------------------------------------------------
(* C18 *)

\* The line at p comes after a well-formed file header with no other line
\* starting with `diff --git ` in between.
InOpenFile(ls, p) ==
    LET ds == {q \in 1..(p - 1) : IsDiffGitLine(ls[q])}
    IN  ds # {} /\ WellFormedHeader(ls[CHOOSE q \in ds : \A r \in ds : r <= q])

\* The positions of the hunk headers that open a hunk, in order.
HunkHeaderPositions(ls) ==
    Sorted({p \in 1..Len(ls) :
               StartsWith(ls[p], "@@") /\ HunkHeaderMatch(ls[p]).ok /\ InOpenFile(ls, p)})

\* The next line after p that starts with `@@` or with `diff --git `, or the end.
HunkEnd(ls, p) ==
    SetMin({q \in (p + 1)..(Len(ls) + 1) :
               q = Len(ls) + 1 \/ StartsWith(ls[q], "@@") \/ IsDiffGitLine(ls[q])})

IsBodyLine(l) == CharAt(l, 1) \in {" ", "+", "-"}

\* The DiffLines of the hunk whose header is at p.
BodyLines(ls, p) ==
    LET body == SelectSeq(SubSeq(ls, p + 1, HunkEnd(ls, p) - 1), IsBodyLine)
    IN  [i \in 1..Len(body) |->
            [kind |-> IF CharAt(body[i], 1) = " " THEN "context"
                      ELSE IF CharAt(body[i], 1) = "+" THEN "add" ELSE "del",
             text |-> SubSeq(body[i], 2, Len(body[i]))]]

\* C18: the DiffLines of a hunk are, in patch order, the lines between its
\* header and the next `@@` or `diff --git ` line (or the end of the input)
\* whose first character is ' ', '+' or '-', tagged context, add or del, with
\* the rest of the line as text; no other line adds a DiffLine.
C18_HunkBodyLines ==
    pc = "filesDone" =>
        LET hp == HunkHeaderPositions(patchLines)
            hs == AllHunks(files)
        IN  /\ Len(hs) = Len(hp)
            /\ \A i \in 1..Len(hp) : hs[i].lines = BodyLines(patchLines, hp[i])

\* A hunk with a `--- a/x` line read as a del line, after a marker line that
\* added none.
C18_Witness ==
    /\ pc = "filesDone"
    /\ Len(files) = 1
    /\ Len(files[1].hunks) = 1
    /\ files[1].hunks[1].lines = <<[kind |-> "del", text |-> "-- a/x"]>>
    /\ Len(patchLines) = 4
    /\ StartsWith(patchLines[2], "@@")
    /\ patchLines[3] = "\\ No newline at end of file"

-----------------------------------------------------------------------------
(* C19 *)

\* The patch with the declared oldLines, newStart and newLines of its hunk
\* header (the second line) replaced.
WithCounts(ls, s, ol, ns, nl) ==
    JoinStr(<<ls[1], CountHeader(s, ol, ns, nl)>> \o SubSeq(ls, 3, Len(ls)), "\n")

\* C19: the declared counts are never consulted: the hunk has all the body
\* lines up to the end whatever oldLines and newLines say, and the same patch
\* with other values of oldLines, newStart and newLines parses to the same hunk
\* lines and applies to the same text, appliedHunks and rejectedHunks.
C19_DeclaredCountsIgnored ==
    pc = "done" =>
        /\ Len(patch) = 1
        /\ Len(patch[1].lines) = Len(patchLines) - 2
        /\ \A ol \in Counts : \A ns \in Counts : \A nl \in Counts :
              LET other == parseUnifiedDiffFiles(
                               WithCounts(patchLines, patch[1].oldStart, ol, ns, nl))
                  r == applyUnifiedDiffToText(originalText, ToHunks(other[1].hunks))
              IN  /\ other[1].hunks[1].oldLines = ol
                  /\ other[1].hunks[1].lines = files[1].hunks[1].lines
                  /\ r.text = resultText
                  /\ r.appliedHunks = appliedHunks
                  /\ r.rejectedHunks = rejectedHunks

\* A hunk declared with no old and no new lines whose body of two lines was
\* applied and changed the text.
C19_Witness ==
    /\ pc = "done"
    /\ patch[1].oldLines = 0
    /\ patch[1].newLines = 0
    /\ Len(patch[1].lines) = 2
    /\ PreImage(patch[1].lines) # <<>>
    /\ appliedHunks = 1
    /\ resultText # originalText
    /\ srcPos < Len(srcLines)

-----------------------------------------------------------------------------
(* C20 *)

\* The candidates as the claim lists them.
IsNotPreferred(c) == c # preferredStrip
ClaimedCandidates == <<preferredStrip>> \o SelectSeq(<<0, 1, 2, 3>>, IsNotPreferred)

\* The candidate at hand qualifies: its --check run exited 0 and its --stat
\* run exited 0 with a trimmed output that is not empty and not
\* `0 files changed`.
Qualifies ==
    /\ ~check.threw /\ check.exitCode = 0
    /\ ~stat.threw /\ stat.exitCode = 0
    /\ Trim(stat.output) \notin {"", "0 files changed"}

\* C20: the candidates are [preferred, then 0, 1, 2, 3 without the preferred
\* one] and are probed in this order; the candidate returned is the first one
\* that qualifies, no candidate is probed after it, and a candidate whose probe
\* threw or failed is passed over; when none qualifies all have been probed and
\* the preferred level is returned.
C20_FirstQualifyingCandidate ==
    /\ pc # "stripEntry" => stripCandidates = ClaimedCandidates
    /\ \A i \in 1..Len(probed) :
          /\ probed[i].strip = stripCandidates[i]
          /\ i < Len(probed) => ~probed[i].accepted
          /\ probed[i].threw => ~probed[i].accepted
    /\ (pc \in {"probe", "selected"} /\ Len(probed) > 0) =>
          (Last(probed).accepted <=> (~Last(probed).threw /\ Qualifies))
    /\ pc = "selected" =>
          IF Len(probed) > 0 /\ Last(probed).accepted
          THEN selectedStrip = Last(probed).strip
          ELSE Len(probed) = Len(stripCandidates) /\ selectedStrip = preferredStrip

\* The third candidate is returned after a probe that threw and one whose
\* --stat run said `0 files changed`.
C20_Witness ==
    /\ pc = "selected"
    /\ preferredStrip = 1
    /\ selectedStrip = 2
    /\ Len(probed) = 3
    /\ probed[1].threw
    /\ ~probed[2].threw

-----------------------------------------------------------------------------
(* C21 *)

Range(seq) == {seq[i] : i \in 1..Len(seq)}

\* The candidates taken by the loop so far, as `-p` arguments.
TakenLevels == {"-p" \o ToString(stripCandidates[i]) : i \in 1..candIx}

\* The last candidate taken has passed the test and is returned.
SelectedByProbe ==
    /\ pc = "selected"
    /\ probed # <<>>
    /\ Last(probed).accepted

-----------------------------------------------------------------------------
(* C22 *)

\* The message shows a step number within [1, totalSteps].
ShowsBoundedStep(message) ==
    \E n \in 1..params.totalSteps :
        StartsWith(message, "Step " \o ToString(n) \o "/" \o ToString(params.totalSteps)
                            \o ": ")

\* The sum of the increments reported so far, in the units of progressSoFar.
RECURSIVE IncrementSum(_)
IncrementSum(rs) ==
    IF rs = <<>> THEN 0
    ELSE (IF rs[1].increment = undefined THEN 0 ELSE rs[1].increment)
         + IncrementSum(Tail(rs))

StatusLifecycle == <<"show", "hide", "dispose">>

\* C22: for totalSteps >= 1, the status bar item is shown once, and hidden and
\* disposed once, in this order and only after the task has settled; when
\* withStepProgress settles it has done all three and settles as the task did
\* (the value returned, or the error thrown on); every message reported and
\* every status text after a report shows a step within [1, totalSteps], and
\* the increments reported sum up to at most 100.
C22_StatusLifecycleAndBounds ==
    /\ IsPrefix(status.events, StatusLifecycle)
    /\ pc # "progressEntry" => status.events # <<>>
    /\ Len(status.events) > 1 => settled # Pending
    /\ pc = "task" => (settled = Pending /\ status.events = <<"show">>)
    /\ returned # Pending => (status.events = StatusLifecycle /\ returned = settled)
    /\ pc = "progressDone" => returned # Pending
    /\ \A i \in 1..Len(reports) :
          /\ ShowsBoundedStep(reports[i].message)
          /\ reports[i].increment # undefined =>
                (reports[i].increment >= 0 /\ reports[i].increment <= 100)
    /\ reports # <<>> =>
          status.text = params.title \o ": " \o Last(reports).message
    /\ IncrementSum(reports) <= 100 * params.totalSteps

\* A task that calls detail before any next, then next more often than there
\* are steps, and throws: the bar is full, the item is disposed, the error is
\* passed on.
C22_Witness ==
    /\ pc = "progressDone"
    /\ returned.kind = "threw"
    /\ params.totalSteps = 2
    /\ Len(reports) = 4
    /\ reports[1].increment = undefined
    /\ \A i \in 2..4 : reports[i].increment # undefined
    /\ reports[4].increment = 0
    /\ IncrementSum(reports) = 100 * params.totalSteps

-----------------------------------------------------------------------------
(* C23 *)

\* The occurrences of pre in src within the window around preferredPos that
\* begins no earlier than from.
WindowOccurrences(src, pre, preferredPos, from) ==
    {p \in Max(from, preferredPos - 200)..Min(Len(src) - Len(pre), preferredPos + 200) :
        OccursAt(src, p, pre)}

\* C23: for a non-empty pre-image, findBestHunkPosition returns the smallest
\* occurrence in the window [max(srcPos, preferredPos - 200),
\* min(len - k, preferredPos + 200)] when there is one, otherwise the smallest
\* occurrence at or after srcPos, otherwise no position; so an occurrence at
\* the declared position does not win over an earlier one in the window.
C23_TwoTierSearch ==
    (find.done /\ find.expected # <<>>) =>
        LET inWindow == WindowOccurrences(find.src, find.expected, find.preferredPos,
                                          find.lowerBoundPos)
            fromBound == Occurrences(find.src, find.expected, find.lowerBoundPos)
        IN  /\ inWindow # {} => find.result = SetMin(inWindow)
            /\ (inWindow = {} /\ fromBound # {}) => find.result = SetMin(fromBound)
            /\ fromBound = {} => find.result = undefined

\* The window begins past the lower bound and holds two occurrences, the later
\* one at the preferred position; another one lies before the window.  The
\* first one in the window is returned.
C23_Witness ==
    /\ find.done
    /\ find.expected # <<>>
    /\ find.preferredPos - window > find.lowerBoundPos
    /\ OccursAt(find.src, find.preferredPos, find.expected)
    /\ find.result # undefined
    /\ find.result < find.preferredPos
    /\ find.result >= find.preferredPos - window
    /\ \E p \in Occurrences(find.src, find.expected, find.lowerBoundPos) :
          p < find.preferredPos - window

-----------------------------------------------------------------------------
(* C24 *)

\* The texts of the context and add lines of a hunk, in order.
IsNewLine(l) == l.kind # "del"
PostImage(lines) ==
    LET new == SelectSeq(lines, IsNewLine) IN [i \in 1..Len(new) |-> new[i].text]

C24_Step ==
    /\ appliedHunks' = appliedHunks + 1 =>
          LET foundPos == LastPlaced(placed').from
          IN  /\ pc = "hunk"
              /\ out' = out \o GapLines(srcLines, srcPos, foundPos) \o PostImage(hunk.lines)
              /\ srcPos' = foundPos + Len(PreImage(hunk.lines))
              /\ Len(placed') = Len(placed) + 1
    /\ appliedHunks' # appliedHunks + 1 => (appliedHunks' = appliedHunks /\ out' = out)

C24_Final ==
    /\ (pc = "loop" /\ hunkIndex = 0) => (out = <<>> /\ srcPos = 0 /\ appliedHunks = 0)
    /\ pc = "done" =>
          resultText = joinText([lines |-> out \o GapLines(srcLines, srcPos, Len(srcLines)),
                                 eol |-> original.eol,
                                 endsWithNewline |-> original.endsWithNewline])

\* C24: the step that applies a hunk at foundPos appends to the output the
\* source lines [srcPos, foundPos) and then the hunk's context and add lines
\* in hunk order, sets srcPos to foundPos plus the number of context and del
\* lines, and adds 1 to appliedHunks; no other step changes the output, which
\* starts empty; the returned text is the join of the output followed by the
\* source lines from the final srcPos to the end.
C24_EffectOfAppliedHunk == []C24_Final /\ [][C24_Step]_vars

\* One hunk with a context and an add line applied at the second source line,
\* the first line being copied through, and the text returned.
C24_Witness ==
    /\ pc = "done"
    /\ Len(placed) = 1
    /\ placed[1] = [from |-> 1, to |-> 2]
    /\ Len(out) = 3
    /\ resultText # originalText

-----------------------------------------------------------------------------
(* C25 *)

\* The number of drift lines at the head of the lines, and the lines after them.
DriftCount(lines) ==
    SetMin({n \in 0..Len(lines) : n = Len(lines) \/ lines[n + 1] # DriftLine})

Baseline(lines) == SubSeq(lines, DriftCount(lines) + 1, Len(lines))

\* The lines a run leaves: the output and the rest of the source.
FinalLines(src, st) == st.out \o GapLines(src, st.srcPos, Len(src))

C25_Step ==
    (/\ pc = "hunk"
     /\ PreImage(hunk.lines) # <<>>
     /\ \E p \in Occurrences(srcLines, PreImage(hunk.lines), srcPos) :
           p - PreferredPos(hunk) <= 200 /\ PreferredPos(hunk) - p <= 200) =>
        /\ appliedHunks' = appliedHunks + 1
        /\ LastPlaced(placed').from
              \in WindowOccurrences(srcLines, PreImage(hunk.lines), PreferredPos(hunk), srcPos)

C25_Drifted ==
    pc = "done" =>
        LET clean == ApplyHunks(Baseline(srcLines), LoopStart, patch)
        IN  clean.rejectedHunks = 0 =>
                /\ rejectedHunks = 0
                /\ FinalLines(srcLines, LoopState)
                      = SubSeq(srcLines, 1, DriftCount(srcLines))
                        \o FinalLines(Baseline(srcLines), clean)

\* C25: a hunk whose non-empty pre-image occurs at a position p >= srcPos with
\* |p - preferredPos| <= 200 is applied at a match of the windowed pass; and
\* when the hunk list applies to the baseline with no rejection, it applies to
\* the baseline with d lines put before it with no rejection, and returns
\* those d lines followed by what it returns for the baseline.
C25_DriftTolerance == []C25_Drifted /\ [][C25_Step]_vars

-----------------------------------------------------------------------------
(* C26 *)

\* C26: whenever findBestHunkPosition returns a position for the hunk at hand,
\* the walk over the hunk's lines from that position succeeds; so a hunk that
\* is rejected is rejected by the search (no position found), with nothing
\* appended to the output, and the rollback branch is not taken.
C26_NoMidWalkFailure ==
    pc = "hunk" =>
        LET found == findBestHunkPosition(srcLines, buildExpectedSourceLines(hunk.lines),
                                          PreferredPos(hunk), srcPos)
            walk == WalkHunk(srcLines, hunk.lines,
                             [ok |-> TRUE, tempSrcPos |-> found, tempOut |-> <<>>])
            st == ApplyHunk(srcLines, LoopState, hunk)
        IN  /\ found # undefined => (walk.ok /\ st.applied)
            /\ ~st.applied => (found = undefined /\ st.foundPos = undefined /\ st.out = out)

\* The hunk at hand has a pre-image of two lines for which a position is found
\* away from the declared one.
C26_Witness ==
    /\ pc = "hunk"
    /\ Len(PreImage(hunk.lines)) = 2
    /\ findBestHunkPosition(srcLines, PreImage(hunk.lines), PreferredPos(hunk), srcPos)
          \notin {undefined, PreferredPos(hunk)}

-----------------------------------------------------------------------------
(* C27 *)

\* C27: after any prefix of any hunk list on any baseline, srcPos lies within
\* the source: 0 <= srcPos <= number of source lines.
C27_CursorInsideSource ==
    /\ 0 <= srcPos
    /\ srcPos <= Len(srcLines)

-----------------------------------------------------------------------------
(* C28 *)

\* The hunks the loop has dealt with: those taken, less the one at hand.
HunksDone == IF pc = "hunk" THEN hunkIndex - 1 ELSE hunkIndex

C28_Counted ==
    /\ appliedHunks >= 0
    /\ rejectedHunks >= 0
    /\ appliedHunks + rejectedHunks = HunksDone

C28_Step ==
    /\ pc = "hunk" =>
          \/ appliedHunks' = appliedHunks + 1 /\ rejectedHunks' = rejectedHunks
          \/ appliedHunks' = appliedHunks /\ rejectedHunks' = rejectedHunks + 1
    /\ pc # "hunk" => (appliedHunks' = appliedHunks /\ rejectedHunks' = rejectedHunks)
    /\ hunkIndex' \in {hunkIndex, hunkIndex + 1}
    /\ pc = "done" => pc' = "done"

\* C28: the two counters are never negative and count every hunk the loop has
\* dealt with exactly once, each hunk adding 1 to one of them; so when the
\* function returns their sum is the number of hunks of the file; and the loop
\* ends: the function returns after one pass over the hunks.
C28_EveryHunkCountedOnce ==
    /\ []C28_Counted
    /\ [][C28_Step]_vars
    /\ <>(pc = "done" /\ appliedHunks + rejectedHunks = hunkIndex)

\* The function has returned after a pass over two hunks, one applied and one
\* rejected.
C28_Witness ==
    /\ pc = "done"
    /\ hunkIndex = 2
    /\ appliedHunks = 1
    /\ rejectedHunks = 1

-----------------------------------------------------------------------------
(* C29 *)

\* Add lines less del lines, over the lines of the hunks.
RECURSIVE NetLines(_)
NetLines(hs) ==
    IF hs = <<>> THEN 0
    ELSE Len(SelectSeq(hs[1], IsAddLine)) - (Len(hs[1]) - Len(SelectSeq(hs[1], IsNewLine)))
         + NetLines(Tail(hs))

\* What a hunk leaves of the source lines from pos on: the source line for a
\* context line, nothing for a del line, and its add lines in between.
RECURSIVE Conserved(_, _, _)
Conserved(src, pos, lines) ==
    IF lines = <<>> THEN <<>>
    ELSE IF lines[1].kind = "context"
         THEN GapLines(src, pos, pos + 1) \o Conserved(src, pos + 1, Tail(lines))
    ELSE IF lines[1].kind = "del" THEN Conserved(src, pos + 1, Tail(lines))
    ELSE <<lines[1].text>> \o Conserved(src, pos, Tail(lines))

\* The source from the cursor on with the applied hunks worked in.
RECURSIVE ConservedAll(_, _, _, _)
ConservedAll(src, cursor, ranges, hs) ==
    IF ranges = <<>> THEN GapLines(src, cursor, Len(src))
    ELSE GapLines(src, cursor, ranges[1].from)
         \o Conserved(src, ranges[1].from, hs[1])
         \o ConservedAll(src, ranges[1].to, Tail(ranges), Tail(hs))

\* C29: between hunks and at the end, the lines the run leaves (the output and
\* the rest of the source) are as many as the source lines plus, over the
\* applied hunks alone, add lines less del lines; they are the source lines in
\* their order, each once, without those taken by a del line of an applied
\* hunk, and with the add lines of the applied hunks, and nothing else.
C29_LineConservation ==
    pc \in {"loop", "done"} =>
        LET final == FinalLines(srcLines, LoopState)
        IN  /\ Len(placedLines) = Len(placed)
            /\ \A i \in 1..Len(placed) :
                  placed[i].to - placed[i].from = Len(PreImage(placedLines[i]))
            /\ Len(final) = Len(srcLines) + NetLines(placedLines)
            /\ final = ConservedAll(srcLines, 0, placed, placedLines)

\* Two hunks applied, with a del line and an add line among their lines, that
\* change the number of lines.
C29_Witness ==
    /\ pc = "done"
    /\ Len(placedLines) = 2
    /\ \E i \in 1..2 : \E k \in 1..Len(placedLines[i]) : placedLines[i][k].kind = "del"
    /\ \E i \in 1..2 : \E k \in 1..Len(placedLines[i]) : placedLines[i][k].kind = "add"
    /\ NetLines(placedLines) # 0

-----------------------------------------------------------------------------
(* C30 *)

HasRename(blk) == \E j \in 1..Len(blk) : IsRenameFrom(blk[j]) \/ IsRenameTo(blk[j])

\* C30: on the same patch parseGitPatchFileEdits and parseUnifiedDiffFiles
\* return as many entries, one for each well-formed header in order, and the
\* i-th entries have the same oldPath and newPath unless the block of the i-th
\* header holds a `rename from` or `rename to` line.
C30_ParsersAgree ==
    pc = "filesDone" =>
        LET hp == HeaderPositions(patchLines)
        IN  /\ Len(edits) = Len(files)
            /\ Len(edits) = Len(hp)
            /\ \A i \in 1..Len(hp) :
                  ~HasRename(Block(patchLines, hp[i])) =>
                      /\ edits[i].oldPath = files[i].oldPath
                      /\ edits[i].newPath = files[i].newPath

\* Both parsers have returned two entries: the first block has a rename line
\* and the paths differ, the second has a hunk and no rename line, and the
\* paths are the same.
C30_Witness ==
    /\ pc = "filesDone"
    /\ Len(edits) = 2
    /\ Len(files) = 2
    /\ edits[1].oldPath # files[1].oldPath
    /\ edits[2].newPath = files[2].newPath
    /\ files[2].hunks # <<>>

=============================================================================
